---- MODULE Spec2Model ----
(***************************************************************************)
(* Selector manipulation functions of memory/selector.c: the local copy of *)
(* the LDT (wine_ldt_copy), the selector-array allocator, the block sizer  *)
(* and resizer, the alias makers and the linear/segmented pointer bridge.  *)
(***************************************************************************)
EXTENDS Integers, FiniteSets, Sequences, TLC

(***************************************************************************)
(* Sizes of the table.  The source fixes LDT_SIZE at 8192 entries and a    *)
(* selector is a 16-bit WORD, 8 * 8192 = 65536 values; the model keeps the *)
(* same relation between the two (SEL_RANGE) on a table small enough to    *)
(* enumerate.                                                              *)
(***************************************************************************)
LDT_SIZE == 8

FIRST_LDT_ENTRY_TO_ALLOC == 2

\* largest count handed to AllocSelectorArray16
MaxCount == 2

\* largest number of selectors, blocks, aliases and mappings callers hold at once
MaxLive == 2

\* largest number of blocks callers hold at once in SpecSized
MaxBlocks == 2

\* largest number of calls of the unmap helper after one call of the map helper
MaxUnmaps == 3

__AHSHIFT == 3

WINE_LDT_FLAGS_DATA == 19

WINE_LDT_FLAGS_CODE == 27

WINE_LDT_FLAGS_32BIT == 64

WINE_LDT_FLAGS_ALLOCATED == 128


\* WORD arithmetic on counts is modulo 2^16
WORD_RANGE == 65536

\* one selector covers 0x10000 bytes
SEG_SIZE == <<1, 0>>

\* WORD arithmetic on selectors: 2^__AHSHIFT values per table entry
SEL_RANGE == LDT_SIZE * (2 ^ __AHSHIFT)

Indices == 0 .. (LDT_SIZE - 1)

(***************************************************************************)
(* A DWORD (a size, a limit, a linear address, a SEGPTR) is the pair of    *)
(* its high and low 16-bit words, <<HIWORD, LOWORD>>; sums and differences *)
(* are taken modulo 2^32.                                                  *)
(***************************************************************************)
HIWORD(x) == x[1]

LOWORD(x) == x[2]

DwAdd(a, b) ==
    LET lo == a[2] + b[2]
    IN  <<(a[1] + b[1] + (lo \div WORD_RANGE)) % WORD_RANGE, lo % WORD_RANGE>>

DwSub(a, b) ==
    LET borrow == IF a[2] < b[2] THEN 1 ELSE 0
    IN  <<(a[1] + WORD_RANGE - b[1] - borrow) % WORD_RANGE,
          (a[2] + WORD_RANGE - b[2]) % WORD_RANGE>>

\* a > b, unsigned
DwGreater(a, b) == a[1] > b[1] \/ (a[1] = b[1] /\ a[2] > b[2])

\* sel >> __AHSHIFT
SELECTOR_TO_ENTRY(sel) == sel \div (2 ^ __AHSHIFT)

\* (sel << __AHSHIFT) | 7
ENTRY_TO_SELECTOR(i) == (i * (2 ^ __AHSHIFT)) + 7

\* sel + (i << __AHSHIFT), in WORD arithmetic
SelAdd(sel, i) == (sel + i * (2 ^ __AHSHIFT)) % SEL_RANGE

\* flags & WINE_LDT_FLAGS_ALLOCATED
IsAllocated(f) == (f \div WINE_LDT_FLAGS_ALLOCATED) % 2 = 1

\* flags | WINE_LDT_FLAGS_ALLOCATED
SetAllocated(f) == IF IsAllocated(f) THEN f ELSE f + WINE_LDT_FLAGS_ALLOCATED

\* flags & ~WINE_LDT_FLAGS_ALLOCATED
ClearAllocated(f) == IF IsAllocated(f) THEN f - WINE_LDT_FLAGS_ALLOCATED ELSE f

IS_SELECTOR_FREE(t, sel) == ~IsAllocated(t.flags[SELECTOR_TO_ENTRY(sel)])

(***************************************************************************)
(* LDT_ENTRY and its accessors.  An entry holds the base, the limit, the   *)
(* 5-bit Type field and the Default_Big bit.                               *)
(***************************************************************************)
ZeroEntry == [base |-> <<0, 0>>, limit |-> <<0, 0>>, type |-> 0, big |-> FALSE]

wine_ldt_set_base(entry, base) == [entry EXCEPT !.base = base]

wine_ldt_set_limit(entry, limit) == [entry EXCEPT !.limit = limit]

wine_ldt_set_flags(entry, flags) ==
    [entry EXCEPT !.type = flags % 32,
                  !.big = ((flags \div WINE_LDT_FLAGS_32BIT) % 2 = 1)]

wine_ldt_get_flags(entry) ==
    entry.type + (IF entry.big THEN WINE_LDT_FLAGS_32BIT ELSE 0)

wine_ldt_get_limit(entry) == entry.limit

wine_ldt_get_entry(t, sel) ==
    LET i == SELECTOR_TO_ENTRY(sel)
    IN  wine_ldt_set_flags(
            wine_ldt_set_limit(wine_ldt_set_base(ZeroEntry, t.base[i]), t.limit[i]),
            t.flags[i])

\* the entry is copied into wine_ldt_copy; the allocated bit of the slot is kept
wine_ldt_set_entry(t, sel, entry) ==
    LET i == SELECTOR_TO_ENTRY(sel)
    IN  [base  |-> [t.base EXCEPT ![i] = entry.base],
         limit |-> [t.limit EXCEPT ![i] = entry.limit],
         flags |-> [t.flags EXCEPT ![i] =
                        wine_ldt_get_flags(entry)
                        + (IF IsAllocated(t.flags[i]) THEN WINE_LDT_FLAGS_ALLOCATED ELSE 0)]]

(***************************************************************************)
(* get_sel_count: the number of selectors needed to cover up to the limit  *)
(***************************************************************************)
\* the + 1 is missing
get_sel_count_NoPlusOne(t, sel) ==
    HIWORD(t.limit[SELECTOR_TO_ENTRY(sel)]) % WORD_RANGE

get_sel_count(t, sel) ==
    (HIWORD(t.limit[SELECTOR_TO_ENTRY(sel)]) + 1) % WORD_RANGE

(***************************************************************************)
(* SELECTOR_AllocArray: the scan loop, then the marking loop.              *)
(***************************************************************************)
RECURSIVE AllocArrayScan(_, _, _, _)
AllocArrayScan(t, count, i, size) ==
    IF i >= LDT_SIZE THEN [i |-> i, size |-> size]
    ELSE IF IsAllocated(t.flags[i]) THEN AllocArrayScan(t, count, i + 1, 0)
    ELSE IF size + 1 >= count THEN [i |-> i, size |-> size + 1]
    ELSE AllocArrayScan(t, count, i + 1, size + 1)

\* the marking loop runs one selector too far
MarkAllocated_OneMore(t, first, n) ==
    [t EXCEPT !.flags = [k \in Indices |->
        IF k >= first /\ k <= first + n THEN SetAllocated(t.flags[k]) ELSE t.flags[k]]]

\* the marking loop sets no allocated bit
MarkAllocated_MarksNothing(t, first, n) == t

MarkAllocated(t, first, n) ==
    [t EXCEPT !.flags = [k \in Indices |->
        IF k >= first /\ k < first + n THEN SetAllocated(t.flags[k]) ELSE t.flags[k]]]

\* sel = i - size: the first selector of the run is taken one entry too low
SELECTOR_AllocArray_OffByOne(t, count) ==
    IF count = 0 THEN [sel |-> 0, ldt |-> t]
    ELSE LET r == AllocArrayScan(t, count, FIRST_LDT_ENTRY_TO_ALLOC, 0)
         IN  IF r.i = LDT_SIZE THEN [sel |-> 0, ldt |-> t]
             ELSE LET sel == r.i - r.size
                  IN  [sel |-> ENTRY_TO_SELECTOR(sel),
                       ldt |-> MarkAllocated(t, sel, count)]

\* the test for i == LDT_SIZE is missing: a scan that found no run still marks
SELECTOR_AllocArray_NoExhaustionTest(t, count) ==
    IF count = 0 THEN [sel |-> 0, ldt |-> t]
    ELSE LET r == AllocArrayScan(t, count, FIRST_LDT_ENTRY_TO_ALLOC, 0)
             sel == (r.i - r.size + 1) % LDT_SIZE
         IN  [sel |-> ENTRY_TO_SELECTOR(sel),
              ldt |-> MarkAllocated(t, sel, count)]

\* the scan starts at entry 0 instead of FIRST_LDT_ENTRY_TO_ALLOC
SELECTOR_AllocArray_FromZero(t, count) ==
    IF count = 0 THEN [sel |-> 0, ldt |-> t]
    ELSE LET r == AllocArrayScan(t, count, 0, 0)
         IN  IF r.i = LDT_SIZE THEN [sel |-> 0, ldt |-> t]
             ELSE LET sel == r.i - r.size + 1
                  IN  [sel |-> ENTRY_TO_SELECTOR(sel),
                       ldt |-> MarkAllocated(t, sel, count)]

SELECTOR_AllocArray(t, count) ==
    IF count = 0 THEN [sel |-> 0, ldt |-> t]
    ELSE LET r == AllocArrayScan(t, count, FIRST_LDT_ENTRY_TO_ALLOC, 0)
         IN  IF r.i = LDT_SIZE THEN [sel |-> 0, ldt |-> t]
             ELSE LET sel == r.i - r.size + 1
                  IN  [sel |-> ENTRY_TO_SELECTOR(sel),
                       ldt |-> MarkAllocated(t, sel, count)]

(***************************************************************************)
(* AllocSelectorArray16: every selector of the array gets base 0, limit 1  *)
(* and data flags.                                                         *)
(***************************************************************************)
RECURSIVE SetArrayEntries(_, _, _, _, _)
SetArrayEntries(t, sel, entry, i, count) ==
    IF i >= count THEN t
    ELSE SetArrayEntries(wine_ldt_set_entry(t, SelAdd(sel, i), entry), sel, entry, i + 1, count)

AllocSelectorArray16Op(t, count) ==
    LET a == SELECTOR_AllocArray(t, count)
        entry == wine_ldt_set_flags(
                     wine_ldt_set_limit(wine_ldt_set_base(ZeroEntry, <<0, 0>>), <<0, 1>>),
                     WINE_LDT_FLAGS_DATA)
    IN  IF a.sel # 0
        THEN [sel |-> a.sel, ldt |-> SetArrayEntries(a.ldt, a.sel, entry, 0, count)]
        ELSE [sel |-> 0, ldt |-> a.ldt]

(***************************************************************************)
(* FreeSelector16.  r is the machine state [ldt, fs, gs]; the result adds  *)
(* the returned WORD.                                                      *)
(***************************************************************************)
\* !((reg ^ sel) & ~7): the register holds this selector, whatever its low bits
SameEntry(reg, sel) == SELECTOR_TO_ENTRY(reg) = SELECTOR_TO_ENTRY(sel)

\* the entry is not cleared, only its allocated bit
FreeSelector16Op_NoClear(r, sel) ==
    IF IS_SELECTOR_FREE(r.ldt, sel) THEN [ret |-> sel, ldt |-> r.ldt, fs |-> r.fs, gs |-> r.gs]
    ELSE LET i == SELECTOR_TO_ENTRY(sel)
         IN  [ret |-> 0,
              ldt |-> [r.ldt EXCEPT !.flags[i] = ClearAllocated(r.ldt.flags[i])],
              fs  |-> IF SameEntry(r.fs, sel) THEN 0 ELSE r.fs,
              gs  |-> IF SameEntry(r.gs, sel) THEN 0 ELSE r.gs]

\* the test for a free selector is missing
FreeSelector16Op_NoFreeTest(r, sel) ==
    LET i == SELECTOR_TO_ENTRY(sel)
        cleared == wine_ldt_set_entry(r.ldt, sel, ZeroEntry)
    IN  [ret |-> 0,
         ldt |-> [cleared EXCEPT !.flags[i] = ClearAllocated(cleared.flags[i])],
         fs  |-> IF SameEntry(r.fs, sel) THEN 0 ELSE r.fs,
         gs  |-> IF SameEntry(r.gs, sel) THEN 0 ELSE r.gs]

\* every entry with the base and limit of the freed one is freed with it
FreeSelector16Op_FreesSameWindow(r, sel) ==
    IF IS_SELECTOR_FREE(r.ldt, sel) THEN [ret |-> sel, ldt |-> r.ldt, fs |-> r.fs, gs |-> r.gs]
    ELSE LET i == SELECTOR_TO_ENTRY(sel)
             same == {k \in Indices : /\ r.ldt.base[k] = r.ldt.base[i]
                                      /\ r.ldt.limit[k] = r.ldt.limit[i]}
         IN  [ret |-> 0,
              ldt |-> [base  |-> [k \in Indices |->
                                     IF k \in same THEN <<0, 0>> ELSE r.ldt.base[k]],
                       limit |-> [k \in Indices |->
                                     IF k \in same THEN <<0, 0>> ELSE r.ldt.limit[k]],
                       flags |-> [k \in Indices |->
                                     IF k \in same THEN 0 ELSE r.ldt.flags[k]]],
              fs  |-> IF SameEntry(r.fs, sel) THEN 0 ELSE r.fs,
              gs  |-> IF SameEntry(r.gs, sel) THEN 0 ELSE r.gs]

\* %fs and %gs are left alone when the freed entry is the one they name
FreeSelector16Op_KeepsRegisters(r, sel) ==
    IF IS_SELECTOR_FREE(r.ldt, sel) THEN [ret |-> sel, ldt |-> r.ldt, fs |-> r.fs, gs |-> r.gs]
    ELSE LET i == SELECTOR_TO_ENTRY(sel)
             cleared == wine_ldt_set_entry(r.ldt, sel, ZeroEntry)
         IN  [ret |-> 0,
              ldt |-> [cleared EXCEPT !.flags[i] = ClearAllocated(cleared.flags[i])],
              fs  |-> r.fs,
              gs  |-> r.gs]

FreeSelector16Op(r, sel) ==
    IF IS_SELECTOR_FREE(r.ldt, sel) THEN [ret |-> sel, ldt |-> r.ldt, fs |-> r.fs, gs |-> r.gs]
    ELSE LET i == SELECTOR_TO_ENTRY(sel)
             cleared == wine_ldt_set_entry(r.ldt, sel, ZeroEntry)
         IN  [ret |-> 0,
              ldt |-> [cleared EXCEPT !.flags[i] = ClearAllocated(cleared.flags[i])],
              fs  |-> IF SameEntry(r.fs, sel) THEN 0 ELSE r.fs,
              gs  |-> IF SameEntry(r.gs, sel) THEN 0 ELSE r.gs]

(***************************************************************************)
(* SELECTOR_SetEntries: the windowing loop.  The entry starts with the     *)
(* whole size and loses 0x10000 bytes of base and limit per selector.      *)
(***************************************************************************)
\* (size + 0xffff) / 0x10000 in DWORD arithmetic, stored in a WORD
\* size / 0x10000 + 1 instead of the rounded-up quotient
SelCount_QuotientPlusOne(size) == (HIWORD(size) + 1) % WORD_RANGE

SelCount(size) == HIWORD(DwAdd(size, <<0, 65535>>))

\* the limit is not lowered from one selector to the next
RECURSIVE SetEntriesLoop_KeepLimit(_, _, _, _, _)
SetEntriesLoop_KeepLimit(t, sel, entry, i, count) ==
    IF i >= count THEN t
    ELSE SetEntriesLoop_KeepLimit(
             wine_ldt_set_entry(t, SelAdd(sel, i), entry),
             sel,
             wine_ldt_set_base(entry, DwAdd(entry.base, SEG_SIZE)),
             i + 1, count)

RECURSIVE SetEntriesLoop(_, _, _, _, _)
SetEntriesLoop(t, sel, entry, i, count) ==
    IF i >= count THEN t
    ELSE SetEntriesLoop(
             wine_ldt_set_entry(t, SelAdd(sel, i), entry),
             sel,
             wine_ldt_set_limit(
                 wine_ldt_set_base(entry, DwAdd(entry.base, SEG_SIZE)),
                 DwSub(entry.limit, SEG_SIZE)),
             i + 1, count)

\* the limit is set to size instead of size - 1
FirstEntry_LimitIsSize(base, size, flags) ==
    LET e == wine_ldt_set_flags(
                 wine_ldt_set_limit(wine_ldt_set_base(ZeroEntry, base), size),
                 flags)
    IN  IF base = <<0, 0>> /\ size = <<0, 1>> THEN wine_ldt_set_limit(e, <<0, 1>>) ELSE e

FirstEntry(base, size, flags) ==
    LET e == wine_ldt_set_flags(
                 wine_ldt_set_limit(wine_ldt_set_base(ZeroEntry, base),
                                    DwSub(size, <<0, 1>>)),
                 flags)
    IN  IF base = <<0, 0>> /\ size = <<0, 1>> THEN wine_ldt_set_limit(e, <<0, 1>>) ELSE e

SELECTOR_SetEntries(t, sel, base, size, flags) ==
    SetEntriesLoop(t, sel, FirstEntry(base, size, flags), 0, SelCount(size))

(***************************************************************************)
(* SELECTOR_AllocBlock                                                     *)
(***************************************************************************)
SELECTOR_AllocBlock(t, base, size, flags) ==
    IF size = <<0, 0>> THEN [sel |-> 0, ldt |-> t]
    ELSE LET a == SELECTOR_AllocArray(t, SelCount(size))
         IN  IF a.sel # 0
             THEN [sel |-> a.sel, ldt |-> SELECTOR_SetEntries(a.ldt, a.sel, base, size, flags)]
             ELSE [sel |-> 0, ldt |-> a.ldt]

(***************************************************************************)
(* SELECTOR_FreeBlock: the count is read once, then each selector is freed *)
(***************************************************************************)
RECURSIVE FreeBlockLoop(_, _, _, _)
FreeBlockLoop(r, sel, i, count) ==
    IF i >= count THEN r
    ELSE LET f == FreeSelector16Op(r, SelAdd(sel, i))
         IN  FreeBlockLoop([ldt |-> f.ldt, fs |-> f.fs, gs |-> f.gs], sel, i + 1, count)

\* only the first selector is freed
SELECTOR_FreeBlock_FirstOnly(r, sel) == FreeBlockLoop(r, sel, 0, 1)

\* one selector fewer than the count is freed
SELECTOR_FreeBlock_OneFewer(r, sel) ==
    FreeBlockLoop(r, sel, 0, get_sel_count(r.ldt, sel) - 1)

SELECTOR_FreeBlock(r, sel) == FreeBlockLoop(r, sel, 0, get_sel_count(r.ldt, sel))

(***************************************************************************)
(* SELECTOR_ReallocBlock                                                   *)
(***************************************************************************)
\* the following entries are always reported as taken
NextAllocated_AlwaysTaken(t, index, i, newcount) == i

\* the first i in oldcount..newcount-1 whose entry is allocated, else newcount
RECURSIVE NextAllocated(_, _, _, _)
NextAllocated(t, index, i, newcount) ==
    IF i >= newcount THEN i
    ELSE IF IsAllocated(t.flags[index + i]) THEN i
    ELSE NextAllocated(t, index, i + 1, newcount)

\* What the branch that adds selectors did with the entries after the block:
\* the indices of wine_ldt_copy.flags it read, those it marked allocated, and
\* whether it freed the block to allocate it elsewhere.
NoScan == [grow |-> FALSE, reads |-> {}, marks |-> {}, moved |-> FALSE]

\* the entries after the block are read without looking at LDT_SIZE; an
\* entry past the end of the table reads as free
FollowingScan_NoGuard(t, index, oldcount, newcount) ==
    LET taken == {k \in oldcount .. (newcount - 1) :
                      index + k \in Indices /\ IsAllocated(t.flags[index + k])}
        i == IF taken = {} THEN newcount
             ELSE CHOOSE k \in taken : \A j \in taken : k <= j
    IN  [i |-> i,
         reads |-> {index + k : k \in oldcount .. (IF i < newcount THEN i ELSE newcount - 1)}]

\* if (index + newcount > LDT_SIZE) i = oldcount; else the loop over
\* wine_ldt_copy.flags[index+i], which stops at the first allocated entry
FollowingScan(t, index, oldcount, newcount) ==
    IF index + newcount > LDT_SIZE THEN [i |-> oldcount, reads |-> {}]
    ELSE LET i == NextAllocated(t, index, oldcount, newcount)
         IN  [i |-> i,
              reads |-> {index + k :
                             k \in oldcount .. (IF i < newcount THEN i ELSE newcount - 1)}]

SELECTOR_ReallocBlock(r, sel, base, size0) ==
    LET size == IF size0 = <<0, 0>> THEN <<0, 1>> ELSE size0
        oldcount == get_sel_count(r.ldt, sel)
        newcount == HIWORD(DwAdd(size, <<0, 65535>>))
        entry == wine_ldt_get_entry(r.ldt, sel)
        index == SELECTOR_TO_ENTRY(sel)
        grown ==
            LET following == FollowingScan(r.ldt, index, oldcount, newcount)
                i == following.i
            IN  IF i < newcount
                THEN LET f == SELECTOR_FreeBlock(r, sel)
                         a == SELECTOR_AllocArray(f.ldt, newcount)
                     IN  [sel |-> a.sel, ldt |-> a.ldt, fs |-> f.fs, gs |-> f.gs,
                          scan |-> [grow |-> TRUE, reads |-> following.reads,
                                    marks |-> {}, moved |-> TRUE]]
                ELSE [sel |-> sel,
                      ldt |-> [r.ldt EXCEPT !.flags = [k \in Indices |->
                                  IF k >= index + oldcount /\ k < index + newcount
                                  THEN SetAllocated(r.ldt.flags[k]) ELSE r.ldt.flags[k]]],
                      fs |-> r.fs, gs |-> r.gs,
                      scan |-> [grow |-> TRUE, reads |-> following.reads,
                                marks |-> {index + k : k \in oldcount .. (newcount - 1)},
                                moved |-> FALSE]]
        shrunk ==
            LET f == SELECTOR_FreeBlock(r, SelAdd(sel, newcount))
            IN  [sel |-> sel, ldt |-> f.ldt, fs |-> f.fs, gs |-> f.gs, scan |-> NoScan]
        m == IF oldcount < newcount THEN grown
             ELSE IF oldcount > newcount THEN shrunk
             ELSE [sel |-> sel, ldt |-> r.ldt, fs |-> r.fs, gs |-> r.gs, scan |-> NoScan]
    IN  IF m.sel # 0
        THEN [m EXCEPT !.ldt = SELECTOR_SetEntries(m.ldt, m.sel, base, size,
                                                   wine_ldt_get_flags(entry))]
        ELSE m

(***************************************************************************)
(* AllocCStoDSAlias16 and AllocDStoCSAlias16: a fresh selector gets a copy *)
(* of the source entry with the Type field set to data, or to code.        *)
(***************************************************************************)
\* the executable bit of the source's Type is toggled, whatever the call asks for
AllocAlias_Toggle(t, sel, type) ==
    LET a == SELECTOR_AllocArray(t, 1)
    IN  IF a.sel = 0 THEN [sel |-> 0, ldt |-> a.ldt]
        ELSE LET src == wine_ldt_get_entry(a.ldt, sel)
                 entry == [src EXCEPT !.type = IF src.type = WINE_LDT_FLAGS_CODE
                                                THEN WINE_LDT_FLAGS_DATA
                                                ELSE WINE_LDT_FLAGS_CODE]
             IN  [sel |-> a.sel, ldt |-> wine_ldt_set_entry(a.ldt, a.sel, entry)]

\* only the segment and executable bits of the source's Type are replaced;
\* its three low bits are kept
AllocAlias_KeepsAccessBits(t, sel, type) ==
    LET a == SELECTOR_AllocArray(t, 1)
    IN  IF a.sel = 0 THEN [sel |-> 0, ldt |-> a.ldt]
        ELSE LET src == wine_ldt_get_entry(a.ldt, sel)
                 entry == [src EXCEPT !.type = (type - (type % 8)) + (src.type % 8)]
             IN  [sel |-> a.sel, ldt |-> wine_ldt_set_entry(a.ldt, a.sel, entry)]

AllocAlias(t, sel, type) ==
    LET a == SELECTOR_AllocArray(t, 1)
    IN  IF a.sel = 0 THEN [sel |-> 0, ldt |-> a.ldt]
        ELSE LET entry == [wine_ldt_get_entry(a.ldt, sel) EXCEPT !.type = type]
             IN  [sel |-> a.sel, ldt |-> wine_ldt_set_entry(a.ldt, a.sel, entry)]

AllocCStoDSAlias16Op(t, sel) == AllocAlias(t, sel, WINE_LDT_FLAGS_DATA)

AllocDStoCSAlias16Op(t, sel) == AllocAlias(t, sel, WINE_LDT_FLAGS_CODE)

(***************************************************************************)
(* MapLS, UnMapLS and MapSL.  A SEGPTR holds the selector in its high word *)
(* and the offset in its low word.                                         *)
(***************************************************************************)
SELECTOROF(sptr) == HIWORD(sptr)

OFFSETOF(sptr) == LOWORD(sptr)

PTR_SEG_OFF_TO_SEGPTR(sel, off) == <<sel, off>>

\* a selector is allocated whatever the high word of ptr is
MapLSOp_AlwaysAllocates(t, ptr) ==
    LET a == SELECTOR_AllocBlock(t, ptr, SEG_SIZE, WINE_LDT_FLAGS_DATA)
    IN  [sptr |-> PTR_SEG_OFF_TO_SEGPTR(a.sel, 0), ldt |-> a.ldt]

\* the block starts at the page that holds ptr
MapLSOp_PageAligned(t, ptr) ==
    IF HIWORD(ptr) = 0 THEN [sptr |-> ptr, ldt |-> t]
    ELSE LET page == <<HIWORD(ptr), LOWORD(ptr) - (LOWORD(ptr) % 4096)>>
             a == SELECTOR_AllocBlock(t, page, SEG_SIZE, WINE_LDT_FLAGS_DATA)
         IN  [sptr |-> PTR_SEG_OFF_TO_SEGPTR(a.sel, 0), ldt |-> a.ldt]

\* the block starts at the 64KB boundary below ptr and the offset is the rest
MapLSOp_KeepsOffset(t, ptr) ==
    IF HIWORD(ptr) = 0 THEN [sptr |-> ptr, ldt |-> t]
    ELSE LET a == SELECTOR_AllocBlock(t, <<HIWORD(ptr), 0>>, SEG_SIZE, WINE_LDT_FLAGS_DATA)
         IN  [sptr |-> PTR_SEG_OFF_TO_SEGPTR(a.sel, LOWORD(ptr)), ldt |-> a.ldt]

MapLSOp(t, ptr) ==
    IF HIWORD(ptr) = 0 THEN [sptr |-> ptr, ldt |-> t]
    ELSE LET a == SELECTOR_AllocBlock(t, ptr, SEG_SIZE, WINE_LDT_FLAGS_DATA)
         IN  [sptr |-> PTR_SEG_OFF_TO_SEGPTR(a.sel, 0), ldt |-> a.ldt]

UnMapLSOp(r, sptr) ==
    IF SELECTOROF(sptr) # 0
    THEN LET f == FreeSelector16Op(r, SELECTOROF(sptr))
         IN  [ldt |-> f.ldt, fs |-> f.fs, gs |-> f.gs]
    ELSE r

(***************************************************************************)
(* SMapLS_IP_EBP_x and SUnMapLS_IP_EBP_x: val is the DWORD at              *)
(* [EBP+argoff]; the helpers leave a SEGPTR or 0 there.                    *)
(***************************************************************************)
x_SMapLS_IP_EBP_x(t, val) ==
    IF HIWORD(val) = 0
    THEN [ldt |-> t, slot |-> <<0, 0>>, eax |-> val]
    ELSE LET m == MapLSOp(t, val)
         IN  [ldt |-> m.ldt, slot |-> m.sptr, eax |-> m.sptr]

\* the slot keeps the pointer after UnMapLS
x_SUnMapLS_IP_EBP_x_KeepsSlot(r, slot) ==
    IF slot # <<0, 0>>
    THEN LET u == UnMapLSOp(r, slot)
         IN  [ldt |-> u.ldt, fs |-> u.fs, gs |-> u.gs, slot |-> slot, called |-> TRUE]
    ELSE [ldt |-> r.ldt, fs |-> r.fs, gs |-> r.gs, slot |-> slot, called |-> FALSE]

\* called says whether UnMapLS was called
x_SUnMapLS_IP_EBP_x(r, slot) ==
    IF slot # <<0, 0>>
    THEN LET u == UnMapLSOp(r, slot)
         IN  [ldt |-> u.ldt, fs |-> u.fs, gs |-> u.gs, slot |-> <<0, 0>>, called |-> TRUE]
    ELSE [ldt |-> r.ldt, fs |-> r.fs, gs |-> r.gs, slot |-> slot, called |-> FALSE]

(***************************************************************************)
(* GetSelectorLimit16                                                      *)
(***************************************************************************)
GetSelectorLimit16(t, sel) == t.limit[SELECTOR_TO_ENTRY(sel)]

MapSL(t, sptr) == DwAdd(t.base[SELECTOR_TO_ENTRY(SELECTOROF(sptr))], <<0, OFFSETOF(sptr)>>)

(***************************************************************************)
(* IsBadCodePtr16, IsBadStringPtr16, IsBadHugeReadPtr16 and                *)
(* IsBadHugeWritePtr16.  ptr is a SEGPTR; size is a DWORD for the huge     *)
(* variants and a UINT16 for the string variant, whose len is the strlen   *)
(* of the memory the pointer names.  TRUE means a bad pointer.             *)
(***************************************************************************)
\* bit n of the 5-bit Type field
TypeBit(type, n) == (type \div (2 ^ n)) % 2

\* the readable bit is compared as well: (Type ^ WINE_LDT_FLAGS_CODE) & 0x1a
NotCode_TestsReadable(type) ==
    \/ TypeBit(type, 4) # TypeBit(WINE_LDT_FLAGS_CODE, 4)
    \/ TypeBit(type, 3) # TypeBit(WINE_LDT_FLAGS_CODE, 3)
    \/ TypeBit(type, 1) # TypeBit(WINE_LDT_FLAGS_CODE, 1)

\* (Type ^ WINE_LDT_FLAGS_CODE) & 0x18
NotCode(type) ==
    \/ TypeBit(type, 4) # TypeBit(WINE_LDT_FLAGS_CODE, 4)
    \/ TypeBit(type, 3) # TypeBit(WINE_LDT_FLAGS_CODE, 3)

\* !(Type & 0x10), or (Type & 0x0a) == 0x08
NotReadable(type) ==
    \/ TypeBit(type, 4) = 0
    \/ (TypeBit(type, 3) = 1 /\ TypeBit(type, 1) = 0)

\* the expand-down bit is compared as well: (Type ^ WINE_LDT_FLAGS_DATA) & ~1
NotWritableData_TestsExpandDown(type) ==
    \/ TypeBit(type, 4) # TypeBit(WINE_LDT_FLAGS_DATA, 4)
    \/ TypeBit(type, 3) # TypeBit(WINE_LDT_FLAGS_DATA, 3)
    \/ TypeBit(type, 2) # TypeBit(WINE_LDT_FLAGS_DATA, 2)
    \/ TypeBit(type, 1) # TypeBit(WINE_LDT_FLAGS_DATA, 1)

\* (Type ^ WINE_LDT_FLAGS_DATA) & ~5
NotWritableData(type) ==
    \/ TypeBit(type, 4) # TypeBit(WINE_LDT_FLAGS_DATA, 4)
    \/ TypeBit(type, 3) # TypeBit(WINE_LDT_FLAGS_DATA, 3)
    \/ TypeBit(type, 1) # TypeBit(WINE_LDT_FLAGS_DATA, 1)

\* size && (OFFSETOF(ptr) + size - 1 > limit), in DWORD arithmetic
PastLimit(off, size, limit) ==
    /\ size # <<0, 0>>
    /\ DwGreater(DwSub(DwAdd(<<0, off>>, size), <<0, 1>>), limit)

IsBadCodePtr16(t, lpfn) ==
    LET sel == SELECTOROF(lpfn)
        entry == wine_ldt_get_entry(t, sel)
    IN  IF sel = 0 THEN TRUE
        ELSE IF IS_SELECTOR_FREE(t, sel) THEN TRUE
        ELSE IF NotCode(entry.type) THEN TRUE
        ELSE IF DwGreater(<<0, OFFSETOF(lpfn)>>, wine_ldt_get_limit(entry)) THEN TRUE
        ELSE FALSE

IsBadStringPtr16(t, ptr, size0, len) ==
    LET sel == SELECTOROF(ptr)
        entry == wine_ldt_get_entry(t, sel)
        size == IF len < size0 THEN (len + 1) % WORD_RANGE ELSE size0
    IN  IF sel = 0 THEN TRUE
        ELSE IF IS_SELECTOR_FREE(t, sel) THEN TRUE
        ELSE IF NotReadable(entry.type) THEN TRUE
        ELSE IF PastLimit(OFFSETOF(ptr), <<0, size>>, wine_ldt_get_limit(entry)) THEN TRUE
        ELSE FALSE

\* a size of 0 is accepted before the selector is looked at
IsBadHugeReadPtr16_ZeroSizeFirst(t, ptr, size) ==
    LET sel == SELECTOROF(ptr)
        entry == wine_ldt_get_entry(t, sel)
    IN  IF size = <<0, 0>> THEN FALSE
        ELSE IF sel = 0 THEN TRUE
        ELSE IF IS_SELECTOR_FREE(t, sel) THEN TRUE
        ELSE IF NotReadable(entry.type) THEN TRUE
        ELSE IF PastLimit(OFFSETOF(ptr), size, wine_ldt_get_limit(entry)) THEN TRUE
        ELSE FALSE

IsBadHugeReadPtr16(t, ptr, size) ==
    LET sel == SELECTOROF(ptr)
        entry == wine_ldt_get_entry(t, sel)
    IN  IF sel = 0 THEN TRUE
        ELSE IF IS_SELECTOR_FREE(t, sel) THEN TRUE
        ELSE IF NotReadable(entry.type) THEN TRUE
        ELSE IF PastLimit(OFFSETOF(ptr), size, wine_ldt_get_limit(entry)) THEN TRUE
        ELSE FALSE

IsBadHugeWritePtr16(t, ptr, size) ==
    LET sel == SELECTOROF(ptr)
        entry == wine_ldt_get_entry(t, sel)
    IN  IF sel = 0 THEN TRUE
        ELSE IF IS_SELECTOR_FREE(t, sel) THEN TRUE
        ELSE IF NotWritableData(entry.type) THEN TRUE
        ELSE IF PastLimit(OFFSETOF(ptr), size, wine_ldt_get_limit(entry)) THEN TRUE
        ELSE FALSE

(***************************************************************************)
(* GetThreadSelectorEntry.  regs holds the %cs, %ds and %ss of the calling *)
(* thread; reply is what server_call brings back: a failure of the call,   *)
(* or the base, limit and flags of the entry asked for.  The result holds  *)
(* the return value, the caller's LDT_ENTRY, the requests sent to the      *)
(* server and the thread's last error.                                     *)
(***************************************************************************)
ERROR_MR_MID_NOT_FOUND == 317

ERROR_NOACCESS == 998

\* sel & ~3
IgnoreRPL(sel) == sel - (sel % 4)

\* sel & 4
IsLdtSelector(sel) == (sel \div 4) % 2 = 1

\* the descriptor filled in for a GDT selector: base 0, limit 0xfffff in
\* pages, DPL 3, present, 32-bit, Type 0x12
FlatEntry ==
    [base |-> <<0, 0>>, limit |-> <<15, 65535>>, type |-> 18, big |-> TRUE,
     dpl |-> 3, sys |-> 0, pres |-> 1, granularity |-> 1]

\* memset( ldtent, 0, sizeof(*ldtent) )
ClearedEntry ==
    [base |-> <<0, 0>>, limit |-> <<0, 0>>, type |-> 0, big |-> FALSE,
     dpl |-> 0, sys |-> 0, pres |-> 0, granularity |-> 0]

\* the register is compared as it is: sel == __get_cs()
SameGdtSelector_KeepsRPL(sel, reg) == sel = reg

\* sel == (__get_cs() & ~3)
SameGdtSelector(sel, reg) == sel = IgnoreRPL(reg)

\* the request is sent again when server_call failed
QueryServer_Retries(hthread, sel, reply) ==
    IF reply.failed
    THEN <<[handle |-> hthread, entry |-> SELECTOR_TO_ENTRY(sel)],
           [handle |-> hthread, entry |-> SELECTOR_TO_ENTRY(sel)]>>
    ELSE <<[handle |-> hthread, entry |-> SELECTOR_TO_ENTRY(sel)]>>

\* req->handle = hthread; req->entry = sel >> __AHSHIFT; one server_call
QueryServer(hthread, sel, reply) ==
    <<[handle |-> hthread, entry |-> SELECTOR_TO_ENTRY(sel)]>>

GetThreadSelectorEntryOp(regs, hthread, sel0, ldtent0, err0, reply) ==
    IF ~IsLdtSelector(sel0)
    THEN LET sel == IgnoreRPL(sel0)
         IN  IF sel = 0
             THEN [ret |-> TRUE, ldtent |-> ClearedEntry, requests |-> <<>>, err |-> err0]
             ELSE IF SameGdtSelector(sel, regs.ds)
             THEN [ret |-> TRUE, ldtent |-> FlatEntry, requests |-> <<>>, err |-> err0]
             ELSE IF SameGdtSelector(sel, regs.ss)
             THEN [ret |-> TRUE, ldtent |-> FlatEntry, requests |-> <<>>, err |-> err0]
             ELSE IF SameGdtSelector(sel, regs.cs)
             THEN [ret |-> TRUE, ldtent |-> [FlatEntry EXCEPT !.type = 26],
                   requests |-> <<>>, err |-> err0]
             ELSE [ret |-> FALSE, ldtent |-> FlatEntry, requests |-> <<>>,
                   err |-> ERROR_NOACCESS]
    ELSE LET sent == QueryServer(hthread, sel0, reply)
         IN  IF reply.failed
             THEN [ret |-> FALSE, ldtent |-> ldtent0, requests |-> sent, err |-> err0]
             ELSE IF ~IsAllocated(reply.flags)
             THEN [ret |-> FALSE, ldtent |-> ldtent0, requests |-> sent,
                   err |-> ERROR_MR_MID_NOT_FOUND]
             ELSE [ret |-> TRUE,
                   ldtent |-> wine_ldt_set_flags(
                                  wine_ldt_set_limit(
                                      wine_ldt_set_base(ldtent0, reply.base),
                                      reply.limit),
                                  reply.flags),
                   requests |-> sent, err |-> err0]

(***************************************************************************)
(* The state: the LDT copy, the %fs and %gs registers, and what the        *)
(* callers hold.  live is the set of selectors callers own, each with the  *)
(* kind of call that handed it out and the number n of table entries the   *)
(* caller asked for.  A call is two steps: the function                    *)
(* runs (last records the call, its arguments and its result, prev the     *)
(* table it started from), then it returns to its caller (Return).         *)
(***************************************************************************)
\* checked is the selector of the latest pointer a caller found good with one
\* of the IsBad...Ptr16 functions, 0 before any was.
\* What GetThreadSelectorEntry works on: the %cs, %ds and %ss of the calling
\* thread, the LDT_ENTRY of its caller, the requests sent to the server during
\* the latest call, and the thread's last error (0 before any was set).
\* scan is what the latest call's look at the entries after a block read and
\* marked (NoScan when the call had no such look).
\* prevregs is %fs and %gs as they were before the latest call.
\* Two callers may be inside SELECTOR_AllocArray at once.  pc is where each
\* is ("idle" outside a call, "scanned" between the scan loop and the marking
\* loop), want the count it asked for, found the first entry of the run its
\* scan chose, got the selector its latest call returned, and owners the
\* callers each entry was handed to.  fresh says no caller wrote the flags
\* since the caller's scan, raced that the two latest scans both ended before
\* either caller marked, and serialized whether every call runs inside one
\* mutual-exclusion scope of the callers.
\* frame is what the SMapLS_IP_EBP and SUnMapLS_IP_EBP helpers work on: slot
\* is the DWORD at [EBP+argoff] and eax is context->Eax; stored is the pointer
\* the latest map helper put in the slot, unmaps the number of calls of the
\* unmap helper since, and frees how many of them called UnMapLS.
VARIABLES wine_ldt_copy, fs, gs, live, last, prev, checked,
          cs, ds, ss, ldtent, requests, LastError, scan, prevregs,
          pc, want, found, got, owners, fresh, raced, serialized, frame

queryVars == <<cs, ds, ss, ldtent, requests, LastError>>

raceVars == <<pc, want, found, got, owners, fresh, raced, serialized>>

vars == <<wine_ldt_copy, fs, gs, live, last, prev, checked,
          cs, ds, ss, ldtent, requests, LastError, scan, prevregs,
          pc, want, found, got, owners, fresh, raced, serialized, frame>>

\* the frame before any helper ran
NoFrame == [slot |-> <<0, 0>>, eax |-> <<0, 0>>, stored |-> <<0, 0>>,
            unmaps |-> 0, frees |-> 0]

Callers == {1, 2}

Other(c) == 3 - c

\* no caller is inside SELECTOR_AllocArray and none was handed an entry
Quiet ==
    /\ pc = [c \in Callers |-> "idle"]
    /\ want = [c \in Callers |-> 0]
    /\ found = [c \in Callers |-> 0]
    /\ got = [c \in Callers |-> 0]
    /\ owners = [k \in Indices |-> {}]
    /\ fresh = [c \in Callers |-> FALSE]
    /\ raced = FALSE

\* <<base, size, flags>> handed to SELECTOR_AllocBlock; the last size makes
\* (size + 0xffff) overflow a DWORD
AllocArgs ==
    {<<(<<0, 0>>),  (<<0, 0>>),         WINE_LDT_FLAGS_DATA>>,
     <<(<<0, 0>>),  (<<0, 1>>),         WINE_LDT_FLAGS_DATA>>,
     <<(<<18, 0>>), (<<1, 1>>),         WINE_LDT_FLAGS_CODE>>,
     <<(<<18, 0>>), (<<2, 1>>),         WINE_LDT_FLAGS_DATA>>,
     <<(<<18, 0>>), (<<65535, 65535>>), WINE_LDT_FLAGS_DATA>>}

\* <<base, size>> handed to SELECTOR_ReallocBlock
ReallocArgs ==
    {<<(<<0, 0>>),  (<<0, 1>>)>>,
     <<(<<18, 0>>), (<<1, 1>>)>>,
     <<(<<18, 0>>), (<<2, 1>>)>>}

\* the sizes at and around the 0x10000 and 0x20000 boundaries
SizedAllocArgs ==
    {<<(<<0, 0>>),  (<<0, 0>>),         WINE_LDT_FLAGS_DATA>>,
     <<(<<0, 0>>),  (<<0, 1>>),         WINE_LDT_FLAGS_DATA>>,
     <<(<<18, 0>>), (<<0, 1>>),         WINE_LDT_FLAGS_CODE>>,
     <<(<<18, 0>>), (<<0, 65535>>),     WINE_LDT_FLAGS_DATA>>,
     <<(<<18, 0>>), (<<1, 0>>),         WINE_LDT_FLAGS_CODE>>,
     <<(<<0, 0>>),  (<<1, 1>>),         WINE_LDT_FLAGS_DATA>>,
     <<(<<18, 0>>), (<<2, 0>>),         WINE_LDT_FLAGS_CODE>>,
     <<(<<18, 0>>), (<<2, 1>>),         WINE_LDT_FLAGS_DATA>>,
     <<(<<18, 0>>), (<<3, 0>>),         WINE_LDT_FLAGS_DATA>>,
     <<(<<18, 0>>), (<<65535, 65535>>), WINE_LDT_FLAGS_DATA>>}

SizedReallocArgs ==
    {<<(<<18, 0>>), (<<0, 0>>)>>,
     <<(<<0, 0>>),  (<<0, 1>>)>>,
     <<(<<18, 0>>), (<<0, 65535>>)>>,
     <<(<<18, 0>>), (<<1, 0>>)>>,
     <<(<<18, 0>>), (<<1, 1>>)>>,
     <<(<<0, 0>>),  (<<2, 0>>)>>,
     <<(<<18, 0>>), (<<2, 1>>)>>}

\* sizes of one and two windows, and for SELECTOR_ReallocBlock a size that
\* makes (size + 0xffff) overflow a DWORD
HugeAllocArgs ==
    {<<(<<18, 0>>), (<<0, 1>>), WINE_LDT_FLAGS_DATA>>,
     <<(<<18, 0>>), (<<1, 1>>), WINE_LDT_FLAGS_CODE>>}

HugeReallocArgs ==
    {<<(<<18, 0>>), (<<0, 1>>)>>,
     <<(<<18, 0>>), (<<1, 1>>)>>,
     <<(<<18, 0>>), (<<2, 1>>)>>,
     <<(<<18, 0>>), (<<65535, 65535>>)>>}

\* a block that leaves two entries at the end of the table, and a block of
\* one entry to grow into them and past them
EdgeAllocArgs ==
    {<<(<<18, 0>>), (<<LDT_SIZE - FIRST_LDT_ENTRY_TO_ALLOC - 2, 0>>), WINE_LDT_FLAGS_DATA>>,
     <<(<<18, 0>>), (<<0, 1>>), WINE_LDT_FLAGS_CODE>>}

EdgeReallocArgs ==
    {<<(<<18, 0>>), (<<0, 1>>)>>,
     <<(<<18, 0>>), (<<1, 1>>)>>,
     <<(<<18, 0>>), (<<2, 1>>)>>}

\* blocks of 16 bytes, data and code, for the pointer checks
PtrAllocArgs ==
    {<<(<<18, 0>>), (<<0, 16>>), WINE_LDT_FLAGS_DATA>>,
     <<(<<18, 0>>), (<<0, 16>>), WINE_LDT_FLAGS_CODE>>}

\* the flags SELECTOR_AllocBlock is handed for the checks of the descriptor
\* type: writable data (accessed, not accessed, expand-down), read-only data,
\* code (readable and accessed, conforming and neither), and two with the
\* segment bit 0x10 clear
TypeFlags == {19, 18, 23, 17, 27, 28, 11, 2}

\* blocks of 16 bytes of every type in TypeFlags
TypeAllocArgs == {<<(<<18, 0>>), (<<0, 16>>), f>> : f \in TypeFlags}

\* the null selector and the selectors of the first two entries that can be allocated
PtrSelectors ==
    {0} \cup {ENTRY_TO_SELECTOR(i) :
                  i \in FIRST_LDT_ENTRY_TO_ALLOC .. (FIRST_LDT_ENTRY_TO_ALLOC + 1)}

\* offsets at and around the limit of a block of 16 bytes
PtrOffsets == {0, 15, 16}

SegPtrs == {PTR_SEG_OFF_TO_SEGPTR(sel, off) : sel \in PtrSelectors, off \in PtrOffsets}

\* DWORD sizes; with the last, OFFSETOF(ptr) + size - 1 overflows a DWORD
PtrSizes == {<<0, 0>>, <<0, 1>>, <<0, 2>>, <<0, 16>>, <<0, 17>>, <<65535, 65535>>}

\* UINT16 sizes, and the strlen of the memory a string pointer names
StringSizes == {0, 1, 2, 17}

StringLens == {0, 20}

LinearPtrs == {<<0, 4660>>, <<4660, 22136>>}

Machine == [ldt |-> wine_ldt_copy, fs |-> fs, gs |-> gs]

Call(op, sel, base, size, flags, count, ret, sptr) ==
    [op |-> op, sel |-> sel, base |-> base, size |-> size, flags |-> flags,
     count |-> count, ret |-> ret, sptr |-> sptr]

NoCall == Call("none", 0, <<0, 0>>, <<0, 0>>, 0, 0, 0, <<0, 0>>)

Held(kind) == {h.sel : h \in {x \in live : x.kind = kind}}

\* of is the selector an alias was made from, while that selector is held
Holding(sel, kind, n) == [sel |-> sel, kind |-> kind, n |-> n, of |-> 0]

AliasHolding(sel, src) == [Holding(sel, "alias", 1) EXCEPT !.of = src]

\* once a call has returned, an alias whose source is no longer held is held
\* on its own
Unlinked(held) ==
    {IF h.of \in {x.sel : x \in held} THEN h ELSE [h EXCEPT !.of = 0] : h \in held}

\* the selector the alias sel was made from, 0 when sel is not such an alias
SourceOf(sel) ==
    IF \E h \in live : h.sel = sel /\ h.of # 0
    THEN (CHOOSE h \in live : h.sel = sel /\ h.of # 0).of
    ELSE 0

\* the number of 0x10000-byte windows a buffer of size bytes spans
Windows(size) == HIWORD(size) + (IF LOWORD(size) > 0 THEN 1 ELSE 0)

\* what the caller holding sel asked for
Owned(sel) == (CHOOSE h \in live : h.sel = sel).n

FreeEntrySelectors ==
    {ENTRY_TO_SELECTOR(i) : i \in {k \in Indices : ~IsAllocated(wine_ldt_copy.flags[k])}}

\* the call c ran from the current state to machine state r; callers now hold held
Ran(c, r, held) ==
    /\ wine_ldt_copy' = r.ldt
    /\ fs' = r.fs
    /\ gs' = r.gs
    /\ live' = held
    /\ last' = c
    /\ prev' = wine_ldt_copy
    /\ prevregs' = [fs |-> fs, gs |-> gs]
    /\ scan' = IF "scan" \in DOMAIN r THEN r.scan ELSE NoScan
    /\ frame' = IF "frame" \in DOMAIN r THEN r.frame ELSE frame
    /\ UNCHANGED checked
    /\ UNCHANGED queryVars
    /\ UNCHANGED raceVars

\* the LDT_ENTRY of a caller before any call filled it in
StaleEntry ==
    [base |-> <<43981, 43981>>, limit |-> <<10, 43981>>, type |-> 21, big |-> FALSE,
     dpl |-> 2, sys |-> 1, pres |-> 0, granularity |-> 0]

Init ==
    /\ wine_ldt_copy = [base  |-> [i \in Indices |-> <<0, 0>>],
                        limit |-> [i \in Indices |-> <<0, 0>>],
                        flags |-> [i \in Indices |-> 0]]
    /\ fs = 0
    /\ gs = 0
    /\ live = {}
    /\ last = NoCall
    /\ prev = wine_ldt_copy
    /\ prevregs = [fs |-> 0, gs |-> 0]
    /\ Quiet
    /\ frame = NoFrame
    /\ serialized = FALSE
    /\ checked = 0
    /\ cs = 35
    /\ ds = 43
    /\ ss = 43
    /\ ldtent = StaleEntry
    /\ requests = <<>>
    /\ LastError = 0
    /\ scan = NoScan

Return ==
    /\ last.op # "none"
    /\ last' = NoCall
    /\ prev' = wine_ldt_copy
    /\ prevregs' = [fs |-> fs, gs |-> gs]
    /\ live' = Unlinked(live)
    /\ scan' = NoScan
    /\ UNCHANGED <<wine_ldt_copy, fs, gs, checked>>
    /\ UNCHANGED queryVars
    /\ UNCHANGED raceVars
    /\ UNCHANGED frame

AllocSelectorArray16 ==
    \E count \in 0 .. MaxCount :
        LET a == AllocSelectorArray16Op(wine_ldt_copy, count)
            held == IF a.sel = 0 THEN live
                    ELSE live \cup {Holding(SelAdd(a.sel, k), "sel", 1) :
                                        k \in 0 .. (count - 1)}
        IN  /\ last.op = "none"
            /\ Cardinality(held) <= MaxLive
            /\ Ran(Call("AllocSelectorArray16", 0, <<0, 0>>, <<0, 0>>, 0, count, a.sel, <<0, 0>>),
                   [ldt |-> a.ldt, fs |-> fs, gs |-> gs], held)

FreeSelector16 ==
    \E sel \in Held("sel") \cup Held("alias") \cup FreeEntrySelectors :
        LET f == FreeSelector16Op(Machine, sel)
        IN  /\ last.op = "none"
            /\ Ran(Call("FreeSelector16", sel, <<0, 0>>, <<0, 0>>, 0, SourceOf(sel), f.ret, <<0, 0>>),
                   f, {h \in live : h.sel # sel})

AllocBlock(Args, max) ==
    \E args \in Args :
        LET base == args[1]
            size == args[2]
            flags == args[3]
            a == SELECTOR_AllocBlock(wine_ldt_copy, base, size, flags)
            held == IF a.sel = 0 THEN live
                    ELSE live \cup {Holding(a.sel, "block", Windows(size))}
        IN  /\ last.op = "none"
            /\ Cardinality(held) <= max
            /\ Ran(Call("AllocBlock", 0, base, size, flags, 0, a.sel, <<0, 0>>),
                   [ldt |-> a.ldt, fs |-> fs, gs |-> gs], held)

FreeBlock ==
    \E sel \in Held("block") :
        /\ last.op = "none"
        /\ Ran(Call("FreeBlock", sel, <<0, 0>>, <<0, 0>>, 0, Owned(sel), 0, <<0, 0>>),
               SELECTOR_FreeBlock(Machine, sel), {h \in live : h.sel # sel})

\* A selector returned for a size no table can hold is not recorded as held:
\* its caller makes no further call with it.
ReallocBlock(Args) ==
    \E sel \in Held("block"), args \in Args :
        LET base == args[1]
            size == args[2]
            m == SELECTOR_ReallocBlock(Machine, sel, base, size)
            n == Windows(IF size = <<0, 0>> THEN <<0, 1>> ELSE size)
        IN  /\ last.op = "none"
            /\ Ran(Call("ReallocBlock", sel, base, size, 0, Owned(sel), m.sel, <<0, 0>>),
                   m,
                   {h \in live : h.sel # sel}
                       \cup (IF m.sel = 0 \/ n > LDT_SIZE THEN {}
                             ELSE {Holding(m.sel, "block", n)}))

\* The caller of a growing SELECTOR_ReallocBlock finds offset 0 of the block
\* readable and at once asks for the block's earlier number of entries back.
ReallocBack(Args) ==
    \E args \in Args :
        LET base == args[1]
            size == args[2]
            grown == Windows(IF last.size = <<0, 0>> THEN <<0, 1>> ELSE last.size)
            m == SELECTOR_ReallocBlock(Machine, last.ret, base, size)
        IN  /\ last.op = "ReallocBlock"
            /\ grown > last.count
            /\ Windows(size) = last.count
            /\ ~IsBadHugeReadPtr16(wine_ldt_copy, PTR_SEG_OFF_TO_SEGPTR(last.ret, 0), <<0, 1>>)
            /\ Ran(Call("ReallocBack", last.ret, base, size, 0, grown, m.sel, <<0, 0>>),
                   m,
                   {h \in live : h.sel # last.ret}
                       \cup (IF m.sel = 0 THEN {}
                             ELSE {Holding(m.sel, "block", Windows(size))}))

AllocCStoDSAlias16 ==
    \E sel \in {h.sel : h \in live} :
        LET a == AllocCStoDSAlias16Op(wine_ldt_copy, sel)
            held == IF a.sel = 0 THEN live ELSE live \cup {AliasHolding(a.sel, sel)}
        IN  /\ last.op = "none"
            /\ Cardinality(held) <= MaxLive
            /\ Ran(Call("AllocCStoDSAlias16", sel, <<0, 0>>, <<0, 0>>, 0, 0, a.sel, <<0, 0>>),
                   [ldt |-> a.ldt, fs |-> fs, gs |-> gs], held)

AllocDStoCSAlias16 ==
    \E sel \in {h.sel : h \in live} :
        LET a == AllocDStoCSAlias16Op(wine_ldt_copy, sel)
            held == IF a.sel = 0 THEN live ELSE live \cup {AliasHolding(a.sel, sel)}
        IN  /\ last.op = "none"
            /\ Cardinality(held) <= MaxLive
            /\ Ran(Call("AllocDStoCSAlias16", sel, <<0, 0>>, <<0, 0>>, 0, 0, a.sel, <<0, 0>>),
                   [ldt |-> a.ldt, fs |-> fs, gs |-> gs], held)

MapLS ==
    \E ptr \in LinearPtrs :
        LET a == MapLSOp(wine_ldt_copy, ptr)
            held == IF HIWORD(ptr) = 0 \/ SELECTOROF(a.sptr) = 0 THEN live
                    ELSE live \cup {Holding(SELECTOROF(a.sptr), "map", 1)}
        IN  /\ last.op = "none"
            /\ Cardinality(held) <= MaxLive
            /\ Ran(Call("MapLS", 0, ptr, <<0, 0>>, 0, 0, SELECTOROF(a.sptr), a.sptr),
                   [ldt |-> a.ldt, fs |-> fs, gs |-> gs], held)

UnMapLS ==
    \E sptr \in {PTR_SEG_OFF_TO_SEGPTR(s, 0) : s \in Held("map")}
                \cup {p \in LinearPtrs : HIWORD(p) = 0} :
        /\ last.op = "none"
        /\ Ran(Call("UnMapLS", SELECTOROF(sptr), sptr, <<0, 0>>, 0, 0, 0, <<0, 0>>),
               UnMapLSOp(Machine, sptr),
               {h \in live : h.kind # "map" \/ h.sel # SELECTOROF(sptr)})

\* a pointer check ran: the table is as it was, the caller notes a good selector
Checked(c, bad) ==
    /\ last.op = "none"
    /\ last' = [c EXCEPT !.ret = IF bad THEN 1 ELSE 0]
    /\ prev' = wine_ldt_copy
    /\ prevregs' = [fs |-> fs, gs |-> gs]
    /\ checked' = IF bad THEN checked ELSE c.sel
    /\ UNCHANGED <<wine_ldt_copy, fs, gs, live, scan>>
    /\ UNCHANGED queryVars
    /\ UNCHANGED raceVars
    /\ UNCHANGED frame

CheckCodePtr ==
    \E lpfn \in SegPtrs :
        Checked(Call("IsBadCodePtr16", SELECTOROF(lpfn), <<0, 0>>, <<0, 0>>, 0, 0, 0, lpfn),
                IsBadCodePtr16(wine_ldt_copy, lpfn))

CheckStringPtr ==
    \E ptr \in SegPtrs, size \in StringSizes, len \in StringLens :
        Checked(Call("IsBadStringPtr16", SELECTOROF(ptr), <<0, 0>>, <<0, size>>, 0, len, 0, ptr),
                IsBadStringPtr16(wine_ldt_copy, ptr, size, len))

CheckHugeReadPtr ==
    \E ptr \in SegPtrs, size \in PtrSizes :
        Checked(Call("IsBadHugeReadPtr16", SELECTOROF(ptr), <<0, 0>>, size, 0, 0, 0, ptr),
                IsBadHugeReadPtr16(wine_ldt_copy, ptr, size))

CheckHugeWritePtr ==
    \E ptr \in SegPtrs, size \in PtrSizes :
        Checked(Call("IsBadHugeWritePtr16", SELECTOROF(ptr), <<0, 0>>, size, 0, 0, 0, ptr),
                IsBadHugeWritePtr16(wine_ldt_copy, ptr, size))

Next ==
    \/ AllocSelectorArray16
    \/ FreeSelector16
    \/ AllocBlock(AllocArgs, MaxLive)
    \/ FreeBlock
    \/ ReallocBlock(ReallocArgs)
    \/ AllocCStoDSAlias16
    \/ AllocDStoCSAlias16
    \/ MapLS
    \/ UnMapLS
    \/ Return

Spec == Init /\ [][Next]_vars

\* blocks only, over the sizes at the window boundaries
NextSized ==
    \/ AllocBlock(SizedAllocArgs, MaxBlocks)
    \/ FreeBlock
    \/ ReallocBlock(SizedReallocArgs)
    \/ Return

SpecSized == Init /\ [][NextSized]_vars

\* blocks only, with a reallocation to a size above 0xFFFF0000
NextHuge ==
    \/ AllocBlock(HugeAllocArgs, MaxBlocks)
    \/ FreeBlock
    \/ ReallocBlock(HugeReallocArgs)
    \/ ReallocBack(HugeReallocArgs)
    \/ Return

SpecHuge == Init /\ [][NextHuge]_vars

\* blocks of 16 bytes and the pointer checks
NextPtr ==
    \/ AllocBlock(PtrAllocArgs, MaxBlocks)
    \/ FreeBlock
    \/ CheckCodePtr
    \/ CheckStringPtr
    \/ CheckHugeReadPtr
    \/ CheckHugeWritePtr
    \/ Return

SpecPtr == Init /\ [][NextPtr]_vars

\* blocks of 16 bytes of many descriptor types, checked for writing and for
\* executing
NextType ==
    \/ AllocBlock(TypeAllocArgs, MaxBlocks)
    \/ FreeBlock
    \/ CheckCodePtr
    \/ CheckHugeWritePtr
    \/ Return

SpecType == Init /\ [][NextType]_vars

\* the thread handles and the selectors handed to GetThreadSelectorEntry:
\* GDT selectors with and without privilege bits, the null selector, and
\* two LDT selectors
QueryThreads == {1, 2}

QuerySelectors == {0, 3, 32, 35, 40, 43, 51, 115, 123, 23, 31}

\* what the server answers: the call fails, or the entry comes back, not
\* allocated or allocated
Replies ==
    {[failed |-> TRUE, base |-> <<0, 0>>, limit |-> <<0, 0>>, flags |-> 0],
     [failed |-> FALSE, base |-> <<0, 0>>, limit |-> <<0, 0>>, flags |-> 0],
     [failed |-> FALSE, base |-> <<18, 0>>, limit |-> <<0, 15>>, flags |-> WINE_LDT_FLAGS_DATA],
     [failed |-> FALSE, base |-> <<18, 0>>, limit |-> <<0, 15>>,
      flags |-> WINE_LDT_FLAGS_DATA + WINE_LDT_FLAGS_ALLOCATED],
     [failed |-> FALSE, base |-> <<4660, 22136>>, limit |-> <<1, 0>>,
      flags |-> WINE_LDT_FLAGS_CODE + WINE_LDT_FLAGS_32BIT + WINE_LDT_FLAGS_ALLOCATED]}

\* the registers of a thread: a code selector, and data and stack selectors
\* that differ from it and may differ from each other
CodeSelectors == {35, 115}

DataSelectors == {43, 123}

InitQuery ==
    /\ wine_ldt_copy = [base  |-> [i \in Indices |-> <<0, 0>>],
                        limit |-> [i \in Indices |-> <<0, 0>>],
                        flags |-> [i \in Indices |-> 0]]
    /\ fs = 0
    /\ gs = 0
    /\ live = {}
    /\ last = NoCall
    /\ prev = wine_ldt_copy
    /\ prevregs = [fs |-> 0, gs |-> 0]
    /\ Quiet
    /\ frame = NoFrame
    /\ serialized = FALSE
    /\ checked = 0
    /\ cs \in CodeSelectors
    /\ ds \in DataSelectors
    /\ ss \in DataSelectors
    /\ ldtent = StaleEntry
    /\ requests = <<>>
    /\ LastError = 0
    /\ scan = NoScan

\* last records the call with the LDT_ENTRY and the last error as they were
\* before it
GetThreadSelectorEntry ==
    \E hthread \in QueryThreads, sel \in QuerySelectors, reply \in Replies :
        LET q == GetThreadSelectorEntryOp([cs |-> cs, ds |-> ds, ss |-> ss],
                                          hthread, sel, ldtent, LastError, reply)
        IN  /\ last.op = "none"
            /\ last' = [op |-> "GetThreadSelectorEntry", hthread |-> hthread, sel |-> sel,
                        reply |-> reply, ret |-> q.ret, ldtent |-> ldtent,
                        LastError |-> LastError]
            /\ ldtent' = q.ldtent
            /\ requests' = q.requests
            /\ LastError' = q.err
            /\ prev' = wine_ldt_copy
            /\ prevregs' = [fs |-> fs, gs |-> gs]
            /\ UNCHANGED <<wine_ldt_copy, fs, gs, live, checked, cs, ds, ss, scan>>
            /\ UNCHANGED raceVars
            /\ UNCHANGED frame

NextQuery ==
    \/ GetThreadSelectorEntry
    \/ Return

SpecQuery == InitQuery /\ [][NextQuery]_vars

\* blocks at the end of the table
NextEdge ==
    \/ AllocBlock(EdgeAllocArgs, MaxBlocks)
    \/ FreeBlock
    \/ ReallocBlock(EdgeReallocArgs)
    \/ Return

SpecEdge == Init /\ [][NextEdge]_vars

\* blocks of 16 bytes of many descriptor types and their aliases
NextAlias ==
    \/ AllocBlock(TypeAllocArgs, MaxBlocks)
    \/ FreeBlock
    \/ AllocCStoDSAlias16
    \/ AllocDStoCSAlias16
    \/ FreeSelector16
    \/ Return

SpecAlias == Init /\ [][NextAlias]_vars

\* the selectors of the entries that are allocated
AllocatedSelectors ==
    {ENTRY_TO_SELECTOR(i) : i \in {k \in Indices : IsAllocated(wine_ldt_copy.flags[k])}}

\* the 16-bit program loads %fs or %gs, the registers FreeSelector16 reads
\* with __get_fs and __get_gs, with the null selector or a selector in use
LoadSegment ==
    \E sel \in {0} \cup AllocatedSelectors, reg \in {"fs", "gs"} :
        /\ last.op = "none"
        /\ fs' = IF reg = "fs" THEN sel ELSE fs
        /\ gs' = IF reg = "gs" THEN sel ELSE gs
        /\ prevregs' = [fs |-> fs', gs |-> gs']
        /\ UNCHANGED <<wine_ldt_copy, live, last, prev, checked, scan>>
        /\ UNCHANGED queryVars
        /\ UNCHANGED raceVars
        /\ UNCHANGED frame

\* blocks and single selectors, with %fs and %gs loaded by the program
NextRegs ==
    \/ AllocSelectorArray16
    \/ AllocBlock(HugeAllocArgs, MaxBlocks)
    \/ FreeBlock
    \/ ReallocBlock(EdgeReallocArgs)
    \/ FreeSelector16
    \/ MapLS
    \/ UnMapLS
    \/ LoadSegment
    \/ Return

SpecRegs == Init /\ [][NextRegs]_vars

\* the callers either all use one mutual-exclusion scope or none does
InitRace ==
    /\ wine_ldt_copy = [base  |-> [i \in Indices |-> <<0, 0>>],
                        limit |-> [i \in Indices |-> <<0, 0>>],
                        flags |-> [i \in Indices |-> 0]]
    /\ fs = 0
    /\ gs = 0
    /\ live = {}
    /\ last = NoCall
    /\ prev = wine_ldt_copy
    /\ prevregs = [fs |-> 0, gs |-> 0]
    /\ checked = 0
    /\ cs = 35
    /\ ds = 43
    /\ ss = 43
    /\ ldtent = StaleEntry
    /\ requests = <<>>
    /\ LastError = 0
    /\ scan = NoScan
    /\ Quiet
    /\ frame = NoFrame
    /\ serialized \in BOOLEAN

\* what the race steps leave alone
raceFrame == <<live, last, prev, prevregs, checked, scan, serialized>>

\* a caller inside the mutual-exclusion scope keeps the other out of its call
Admitted(c) == serialized => pc[Other(c)] = "idle"

\* the entries handed to a caller and not freed by it since
Handed == {k \in Indices : owners[k] # {}}

\* caller c enters SELECTOR_AllocArray and runs its scan loop (lines 38-45):
\* it returns 0 at once for count 0 or when no run is free, and otherwise
\* stands before the marking loop with the run it chose
ScanRun(c) ==
    \E count \in 0 .. MaxCount :
        LET r == AllocArrayScan(wine_ldt_copy, count, FIRST_LDT_ENTRY_TO_ALLOC, 0)
            none == count = 0 \/ r.i = LDT_SIZE
        IN  /\ pc[c] = "idle"
            /\ Admitted(c)
            /\ Cardinality(Handed) < MaxLive
            /\ want' = [want EXCEPT ![c] = count]
            /\ found' = [found EXCEPT ![c] = IF none THEN 0 ELSE r.i - r.size + 1]
            /\ got' = [got EXCEPT ![c] = 0]
            /\ pc' = [pc EXCEPT ![c] = IF none THEN "idle" ELSE "scanned"]
            /\ fresh' = [fresh EXCEPT ![c] = TRUE]
            /\ raced' = (~none /\ pc[Other(c)] = "scanned" /\ fresh[Other(c)])
            /\ UNCHANGED <<wine_ldt_copy, fs, gs, owners>>
            /\ UNCHANGED raceFrame
            /\ UNCHANGED frame
            /\ UNCHANGED queryVars

\* caller c runs the marking loop (line 48) and returns the selector
MarkRun(c) ==
    /\ pc[c] = "scanned"
    /\ wine_ldt_copy' = MarkAllocated(wine_ldt_copy, found[c], want[c])
    /\ got' = [got EXCEPT ![c] = ENTRY_TO_SELECTOR(found[c])]
    /\ owners' = [k \in Indices |->
                     IF k >= found[c] /\ k < found[c] + want[c]
                     THEN owners[k] \cup {c} ELSE owners[k]]
    /\ pc' = [pc EXCEPT ![c] = "idle"]
    /\ fresh' = [x \in Callers |-> FALSE]
    /\ UNCHANGED <<fs, gs, want, found, raced>>
    /\ UNCHANGED raceFrame
    /\ UNCHANGED frame
    /\ UNCHANGED queryVars

\* caller c frees a selector it was handed
FreeRun(c) ==
    \E k \in {x \in Indices : c \in owners[x]} :
        LET f == FreeSelector16Op(Machine, ENTRY_TO_SELECTOR(k))
        IN  /\ pc[c] = "idle"
            /\ Admitted(c)
            /\ wine_ldt_copy' = f.ldt
            /\ fs' = f.fs
            /\ gs' = f.gs
            /\ owners' = [owners EXCEPT ![k] = owners[k] \ {c}]
            /\ fresh' = [x \in Callers |-> FALSE]
            /\ raced' = FALSE
            /\ got' = [got EXCEPT ![c] = 0]
            /\ UNCHANGED <<pc, want, found>>
            /\ UNCHANGED raceFrame
            /\ UNCHANGED frame
            /\ UNCHANGED queryVars

\* two callers of SELECTOR_AllocArray, step by step
NextRace ==
    \/ \E c \in Callers : ScanRun(c)
    \/ \E c \in Callers : MarkRun(c)
    \/ \E c \in Callers : FreeRun(c)

SpecRace == InitRace /\ [][NextRace]_vars

\* the values a caller leaves at [EBP+argoff] for the map helper: a null
\* pointer, a value below 0x10000 and a linear address above it
FrameArgs == {<<0, 0>>} \cup LinearPtrs

\* last.base is the value found in the slot, last.sptr the pointer returned
\* in context->Eax
SMapLS_IP_EBP ==
    \E val \in FrameArgs :
        LET m == x_SMapLS_IP_EBP_x(wine_ldt_copy, val)
            held == IF SELECTOROF(m.slot) = 0 THEN live
                    ELSE live \cup {Holding(SELECTOROF(m.slot), "map", 1)}
        IN  /\ last.op = "none"
            /\ Cardinality(held) <= MaxLive
            /\ Ran(Call("SMapLS_IP_EBP", 0, val, <<0, 0>>, 0, 0, SELECTOROF(m.eax), m.eax),
                   [ldt |-> m.ldt, fs |-> fs, gs |-> gs,
                    frame |-> [slot |-> m.slot, eax |-> m.eax, stored |-> m.slot,
                               unmaps |-> 0, frees |-> 0]],
                   held)

\* last.sptr is the value found in the slot
SUnMapLS_IP_EBP ==
    LET u == x_SUnMapLS_IP_EBP_x(Machine, frame.slot)
    IN  /\ last.op = "none"
        /\ frame.unmaps < MaxUnmaps
        /\ Ran(Call("SUnMapLS_IP_EBP", SELECTOROF(frame.slot), <<0, 0>>, <<0, 0>>, 0, 0, 0,
                    frame.slot),
               [ldt |-> u.ldt, fs |-> u.fs, gs |-> u.gs,
                frame |-> [frame EXCEPT !.slot = u.slot,
                                        !.unmaps = @ + 1,
                                        !.frees = @ + (IF u.called THEN 1 ELSE 0)]],
               {h \in live : h.kind # "map" \/ h.sel # SELECTOROF(frame.slot)})

\* the frame-slot helpers, with selectors allocated and freed in between
NextFrame ==
    \/ SMapLS_IP_EBP
    \/ SUnMapLS_IP_EBP
    \/ AllocSelectorArray16
    \/ FreeSelector16
    \/ Return

SpecFrame == Init /\ [][NextFrame]_vars

\* SELECTOR_FreeBlock is handed a selector that AllocCStoDSAlias16 or
\* AllocDStoCSAlias16 returned
FreeBlockOfAlias ==
    \E sel \in Held("alias") :
        /\ last.op = "none"
        /\ Ran(Call("FreeBlockOfAlias", sel, <<0, 0>>, <<0, 0>>, 0, Owned(sel), 0, <<0, 0>>),
               SELECTOR_FreeBlock(Machine, sel), {h \in live : h.sel # sel})

\* blocks of one and two entries, their aliases, and a block allocated after
\* an alias
NextAliasFree ==
    \/ AllocBlock(HugeAllocArgs, MaxLive + 1)
    \/ FreeBlock
    \/ AllocCStoDSAlias16
    \/ AllocDStoCSAlias16
    \/ FreeBlockOfAlias
    \/ Return

SpecAliasFree == Init /\ [][NextAliasFree]_vars

(***************************************************************************)
(* Properties.  Each is stated on the record of the latest call: prev is   *)
(* the table the call started from, wine_ldt_copy the table it left.       *)
(***************************************************************************)
AllocBit(t, k) == IsAllocated(t.flags[k])

AllocBits(t) == [k \in Indices |-> AllocBit(t, k)]

Slot(t, k) == [base |-> t.base[k], limit |-> t.limit[k], flags |-> t.flags[k]]

ZeroSlot == [base |-> <<0, 0>>, limit |-> <<0, 0>>, flags |-> 0]

\* n contiguous free entries start at s, at or above the reserved boundary
FreeRunAt(t, s, n) ==
    /\ s >= FIRST_LDT_ENTRY_TO_ALLOC
    /\ s + n <= LDT_SIZE
    /\ \A k \in s .. (s + n - 1) : ~AllocBit(t, k)

RunStarts(t, n) == {s \in Indices : FreeRunAt(t, s, n)}

Lowest(S) == CHOOSE x \in S : \A y \in S : x <= y

\* the latest call asked SELECTOR_AllocArray for a run of RunAsked entries
RunCall ==
    \/ last.op = "AllocSelectorArray16" /\ last.count > 0
    \/ last.op = "AllocBlock" /\ last.size # <<0, 0>>

RunAsked == IF last.op = "AllocBlock" THEN Windows(last.size) ELSE last.count

\* C1: when a run of count free entries exists at or above the reserved
\* boundary, the allocation returns the selector of the lowest such run, marks
\* exactly its count entries allocated and changes no other allocated bit.
C1_FirstFitLowestRun ==
    (RunCall /\ RunStarts(prev, RunAsked) # {}) =>
        LET s == Lowest(RunStarts(prev, RunAsked))
        IN  /\ last.ret # 0
            /\ SELECTOR_TO_ENTRY(last.ret) = s
            /\ \A k \in Indices :
                   AllocBit(wine_ldt_copy, k) =
                       (AllocBit(prev, k) \/ (k >= s /\ k < s + RunAsked))

\* a run was placed above a free entry that was too short a run to take
C1_Witness ==
    /\ RunCall
    /\ RunAsked = 2
    /\ last.ret # 0
    /\ \E k \in FIRST_LDT_ENTRY_TO_ALLOC .. (SELECTOR_TO_ENTRY(last.ret) - 1) : ~AllocBit(prev, k)

\* C2: AllocSelectorArray16 returns 0 for count 0 or when no run of count
\* free entries exists, SELECTOR_AllocBlock returns 0 for size 0 or when no
\* run for its size exists, and a call that returns 0 leaves base, limit and
\* flags of every entry as they were.
C2_FailedAllocationChangesNothing ==
    /\ (last.op = "AllocSelectorArray16"
            /\ (last.count = 0 \/ RunStarts(prev, last.count) = {})) => last.ret = 0
    /\ (last.op = "AllocBlock"
            /\ (last.size = <<0, 0>> \/ RunStarts(prev, Windows(last.size)) = {})) => last.ret = 0
    /\ (last.op \in {"AllocSelectorArray16", "AllocBlock"} /\ last.ret = 0) =>
           wine_ldt_copy = prev

\* a block was refused although free entries remained, none of them a long enough run
C2_Witness ==
    /\ last.op = "AllocBlock"
    /\ last.size # <<0, 0>>
    /\ Windows(last.size) <= LDT_SIZE
    /\ last.ret = 0
    /\ \E k \in FIRST_LDT_ENTRY_TO_ALLOC .. (LDT_SIZE - 1) : ~AllocBit(prev, k)

AllocatingCalls ==
    {"AllocSelectorArray16", "AllocBlock", "ReallocBlock", "AllocCStoDSAlias16",
     "AllocDStoCSAlias16", "MapLS"}

\* the number of entries the latest call's selector stands for
RunReturned ==
    CASE last.op = "AllocSelectorArray16" -> last.count
      [] last.op = "AllocBlock" -> Windows(last.size)
      [] last.op = "ReallocBlock" ->
             Windows(IF last.size = <<0, 0>> THEN <<0, 1>> ELSE last.size)
      [] OTHER -> 1

C4_AllocThenFreeRestoresBits ==
    (RunCall /\ last.ret # 0) =>
        AllocBits(FreeBlockLoop(Machine, last.ret, 0, RunAsked).ldt) = AllocBits(prev)

\* a run of two entries was allocated into a table that already held entries
C4_Witness ==
    /\ RunCall
    /\ RunAsked = 2
    /\ last.ret # 0
    /\ \E k \in Indices : AllocBit(prev, k)
    /\ AllocBits(wine_ldt_copy) # AllocBits(prev)

\* the entries a freeing call was asked to free
FreedEntries ==
    IF last.op = "FreeBlock"
    THEN SELECTOR_TO_ENTRY(last.sel) .. (SELECTOR_TO_ENTRY(last.sel) + last.count - 1)
    ELSE {SELECTOR_TO_ENTRY(last.sel)}

\* C5: freeing an allocated selector, or a block of count selectors, leaves
\* each freed entry with a clear allocated bit and zero base, limit and flags,
\* and leaves every other entry as it was.
C5_FreeZeroesOnlyTheRun ==
    ((last.op = "FreeSelector16" /\ AllocBit(prev, SELECTOR_TO_ENTRY(last.sel)))
         \/ last.op = "FreeBlock") =>
        \A k \in Indices :
            Slot(wine_ldt_copy, k) = IF k \in FreedEntries THEN ZeroSlot ELSE Slot(prev, k)

\* a block of three selectors was freed while another selector stayed allocated
C5_Witness ==
    /\ last.op = "FreeBlock"
    /\ last.count = 3
    /\ \A k \in FreedEntries : Slot(prev, k) # ZeroSlot
    /\ \E k \in Indices : AllocBit(wine_ldt_copy, k)

\* C6: FreeSelector16 on a free entry changes nothing and returns the
\* selector; on an allocated entry it returns 0; a second FreeSelector16 of
\* the same selector changes nothing and returns the selector.
C6_FreeIsIdempotent ==
    last.op = "FreeSelector16" =>
        /\ ~AllocBit(prev, SELECTOR_TO_ENTRY(last.sel)) =>
               (wine_ldt_copy = prev /\ last.ret = last.sel)
        /\ AllocBit(prev, SELECTOR_TO_ENTRY(last.sel)) => last.ret = 0
        /\ FreeSelector16Op(Machine, last.sel).ldt = wine_ldt_copy
        /\ FreeSelector16Op(Machine, last.sel).ret = last.sel

\* a selector just freed is freed again
C6_Witness ==
    /\ last.op = "FreeSelector16"
    /\ last.ret = last.sel
    /\ last.sel # 0
    /\ SELECTOR_TO_ENTRY(last.sel) >= FIRST_LDT_ENTRY_TO_ALLOC
    /\ \E k \in Indices : AllocBit(wine_ldt_copy, k)

\* the entries the latest call marked allocated
NewlyAllocated == {k \in Indices : AllocBit(wine_ldt_copy, k) /\ ~AllocBit(prev, k)}

BlockAllocated == last.op = "AllocBlock" /\ last.size # <<0, 0>> /\ last.ret # 0

\* C7: a successful SELECTOR_AllocBlock of size > 0 allocates exactly
\* ceil(size / 0x10000) entries and frees none; sizes 1, 0xFFFF, 0x10000,
\* 0x10001 and 0x20000 allocate 1, 1, 1, 2 and 2 entries.
C7_BlockTakesCeilWindows ==
    BlockAllocated =>
        /\ Cardinality(NewlyAllocated) = Windows(last.size)
        /\ \A k \in Indices : AllocBit(prev, k) => AllocBit(wine_ldt_copy, k)
        /\ last.size = <<0, 1>> => Cardinality(NewlyAllocated) = 1
        /\ last.size = <<0, 65535>> => Cardinality(NewlyAllocated) = 1
        /\ last.size = <<1, 0>> => Cardinality(NewlyAllocated) = 1
        /\ last.size = <<1, 1>> => Cardinality(NewlyAllocated) = 2
        /\ last.size = <<2, 0>> => Cardinality(NewlyAllocated) = 2

\* a block of 0x10000 bytes took one entry next to a block already there
C7_Witness ==
    /\ BlockAllocated
    /\ last.size = <<1, 0>>
    /\ Cardinality(NewlyAllocated) = 1
    /\ \E k \in Indices : AllocBit(prev, k)

\* (size - 1) mod 0x10000
LastByteOffset(size) == (LOWORD(size) + 65535) % 65536

\* the entry of the last window of the block the latest call returned
LastWindow == SELECTOR_TO_ENTRY(last.ret) + RunReturned - 1

\* C8 as stated: the last window's limit is (size - 1) mod 0x10000, and
\* 0xFFFF when that remainder is 0.
C8_AsStated ==
    BlockAllocated =>
        wine_ldt_copy.limit[LastWindow] =
            IF LastByteOffset(last.size) = 0 THEN <<0, 65535>>
            ELSE <<0, LastByteOffset(last.size)>>

\* C8 amended: the last window's limit is (size - 1) mod 0x10000, also when
\* that remainder is 0, except that base 0 with size 1 stores limit 1.
C8_LastWindowLimit ==
    BlockAllocated =>
        wine_ldt_copy.limit[LastWindow] =
            IF last.base = <<0, 0>> /\ last.size = <<0, 1>> THEN <<0, 1>>
            ELSE <<0, LastByteOffset(last.size)>>

\* a block of 0x10001 bytes ends in a window of limit 0
C8_Witness ==
    /\ BlockAllocated
    /\ last.size = <<1, 1>>
    /\ wine_ldt_copy.limit[LastWindow] = <<0, 0>>

\* the latest call ran SELECTOR_SetEntries over the block it returned
BlockWritten ==
    /\ last.op \in {"AllocBlock", "ReallocBlock"}
    /\ last.ret # 0
    /\ ~(last.op = "AllocBlock" /\ last.size = <<0, 0>>)

WrittenSize == IF last.size = <<0, 0>> THEN <<0, 1>> ELSE last.size

\* C9 as stated: every window but the last has limit 0xFFFF; for size
\* 0x20001 the limits read 0xFFFF, 0xFFFF, 0.
C9_AsStated ==
    BlockWritten =>
        /\ \A i \in 0 .. (RunReturned - 2) :
               GetSelectorLimit16(wine_ldt_copy, SelAdd(last.ret, i)) = <<0, 65535>>
        /\ WrittenSize = <<2, 1>> =>
               /\ GetSelectorLimit16(wine_ldt_copy, SelAdd(last.ret, 0)) = <<0, 65535>>
               /\ GetSelectorLimit16(wine_ldt_copy, SelAdd(last.ret, 1)) = <<0, 65535>>
               /\ GetSelectorLimit16(wine_ldt_copy, SelAdd(last.ret, 2)) = <<0, 0>>

\* C9 amended: window i of a block of n windows has limit
\* size - 1 - i * 0x10000, the offset of the block's last byte from that
\* window's base: 0x10000 * (n - 1 - i) above the last window's limit; for
\* size 0x20001 the limits read 0x20000, 0x10000, 0.
C9_WindowLimitsCountDown ==
    BlockWritten =>
        /\ \A i \in 0 .. (RunReturned - 1) :
               GetSelectorLimit16(wine_ldt_copy, SelAdd(last.ret, i)) =
                   IF last.base = <<0, 0>> /\ WrittenSize = <<0, 1>> THEN <<0, 1>>
                   ELSE <<RunReturned - 1 - i, LastByteOffset(WrittenSize)>>
        /\ WrittenSize = <<2, 1>> =>
               /\ GetSelectorLimit16(wine_ldt_copy, SelAdd(last.ret, 0)) = <<2, 0>>
               /\ GetSelectorLimit16(wine_ldt_copy, SelAdd(last.ret, 1)) = <<1, 0>>
               /\ GetSelectorLimit16(wine_ldt_copy, SelAdd(last.ret, 2)) = <<0, 0>>

\* a block of 0x20001 bytes was allocated: three windows, the first of limit 0x20000
C9_Witness ==
    /\ BlockAllocated
    /\ last.size = <<2, 1>>
    /\ GetSelectorLimit16(wine_ldt_copy, last.ret) = <<2, 0>>
    /\ GetSelectorLimit16(wine_ldt_copy, SelAdd(last.ret, 2)) = <<0, 0>>

Blocks == {h \in live : h.kind = "block"}

\* C10 as stated: (limit >> 16) + 1 of any entry of a live block is the
\* block's number of entries.
C10_AsStated ==
    \A h \in Blocks : \A i \in 0 .. (h.n - 1) :
        get_sel_count(wine_ldt_copy, SelAdd(h.sel, i)) = h.n

\* C10 amended: (limit >> 16) + 1 of entry i of a live block of n entries is
\* n - i, the number of entries from that one to the end of the block; only
\* the first entry gives the block's number of entries.
C10_CountFromEntryToEnd ==
    \A h \in Blocks : \A i \in 0 .. (h.n - 1) :
        get_sel_count(wine_ldt_copy, SelAdd(h.sel, i)) = h.n - i

\* SELECTOR_ReallocBlock moved a block and left it with three entries
C10_Witness ==
    /\ last.op = "ReallocBlock"
    /\ last.ret # last.sel
    /\ \E h \in Blocks :
           /\ h.sel = last.ret
           /\ h.n = 3
           /\ get_sel_count(wine_ldt_copy, SelAdd(h.sel, 1)) = 2

(***************************************************************************)
(* SELECTOR_ReallocBlock, seen from its caller: the block had OldCount     *)
(* entries starting at OldIndex and is asked to span NewCount.             *)
(***************************************************************************)
Realloc == last.op = "ReallocBlock"

OldIndex == SELECTOR_TO_ENTRY(last.sel)

OldCount == last.count

NewCount == Windows(WrittenSize)

OldBlock == {k \in Indices : k >= OldIndex /\ k < OldIndex + OldCount}

\* the entries after the block that a block of NewCount entries would take
Following == (OldIndex + OldCount) .. (OldIndex + NewCount - 1)

FollowingFree ==
    /\ OldIndex + NewCount <= LDT_SIZE
    /\ \A k \in Following : ~AllocBit(prev, k)

Shrink == Realloc /\ NewCount < OldCount

GrowInPlace == Realloc /\ NewCount > OldCount /\ FollowingFree

ReHome == Realloc /\ NewCount > OldCount /\ ~FollowingFree

\* C11: a shrinking SELECTOR_ReallocBlock returns the selector it was given,
\* frees exactly the trailing OldCount - NewCount entries of the block, keeps
\* the leading NewCount entries allocated and changes no other allocated bit.
C11_ShrinkFreesTheTail ==
    Shrink =>
        /\ last.ret = last.sel
        /\ \A k \in Indices :
               AllocBit(wine_ldt_copy, k) =
                   (AllocBit(prev, k)
                        /\ ~(k >= OldIndex + NewCount /\ k < OldIndex + OldCount))
        /\ \A k \in OldIndex .. (OldIndex + NewCount - 1) : AllocBit(wine_ldt_copy, k)

\* a block of three entries was cut to one while another block was live
C11_Witness ==
    /\ Shrink
    /\ OldCount = 3
    /\ NewCount = 1
    /\ AllocBit(wine_ldt_copy, OldIndex)
    /\ ~AllocBit(wine_ldt_copy, OldIndex + 1)
    /\ ~AllocBit(wine_ldt_copy, OldIndex + 2)
    /\ \E k \in Indices \ OldBlock : AllocBit(wine_ldt_copy, k)

\* C12: a growing SELECTOR_ReallocBlock whose following entries are all free
\* and inside the table returns the selector it was given, marks exactly
\* those following entries allocated and changes no other allocated bit.
C12_GrowInPlaceKeepsSelector ==
    GrowInPlace =>
        /\ last.ret = last.sel
        /\ \A k \in Indices :
               AllocBit(wine_ldt_copy, k) = (AllocBit(prev, k) \/ k \in Following)

\* a block grew in place although a lower run of NewCount entries was free
C12_Witness ==
    /\ GrowInPlace
    /\ last.ret = last.sel
    /\ NewCount = OldCount + 2
    /\ \A k \in Following : AllocBit(wine_ldt_copy, k)
    /\ \E s \in RunStarts(prev, NewCount) : s < OldIndex

\* the table with the old block's entries marked free
OldBlockFreed == [k \in Indices |-> AllocBit(prev, k) /\ k \notin OldBlock]

\* the starts of the runs of n entries that are free once the old block is
FreedRunStarts(n) ==
    {s \in Indices : /\ s >= FIRST_LDT_ENTRY_TO_ALLOC
                     /\ s + n <= LDT_SIZE
                     /\ \A k \in s .. (s + n - 1) : ~OldBlockFreed[k]}

\* C13: a growing SELECTOR_ReallocBlock with a following entry allocated or
\* beyond the table frees the whole old block first and then takes the
\* lowest run of NewCount free entries: the selector returned names that run
\* (it is 0 when there is none) and an entry of the old block stays
\* allocated only inside the new run.
C13_ReHomeFreesThenAllocates ==
    ReHome =>
        IF FreedRunStarts(NewCount) = {}
        THEN /\ last.ret = 0
             /\ AllocBits(wine_ldt_copy) = OldBlockFreed
        ELSE LET s == Lowest(FreedRunStarts(NewCount))
             IN  /\ last.ret = ENTRY_TO_SELECTOR(s)
                 /\ \A k \in Indices :
                        AllocBit(wine_ldt_copy, k) =
                            (OldBlockFreed[k] \/ (k >= s /\ k < s + NewCount))
                 /\ \A k \in OldBlock :
                        AllocBit(wine_ldt_copy, k) => (k >= s /\ k < s + NewCount)

\* a block of one entry was asked to span 0xFFFFFFFF bytes: its entry was
\* freed, no run was taken and the selector came back as if it still named a block
C13_HugeSizeKeepsSelector ==
    /\ ReHome
    /\ last.size = <<65535, 65535>>
    /\ FreedRunStarts(NewCount) = {}
    /\ last.ret = last.sel
    /\ ~AllocBit(wine_ldt_copy, OldIndex)

SameCount == Realloc /\ NewCount = OldCount

\* C14: SELECTOR_ReallocBlock on a live block returns 0 only when it had to
\* move the block and no run of NewCount entries was free once the old block
\* was; every entry of the old block is then free.  A shrinking, same-count
\* or in-place growing call never returns 0.
C14_NullOnlyWhenReHomeFails ==
    /\ (Realloc /\ last.ret = 0) =>
           /\ ReHome
           /\ FreedRunStarts(NewCount) = {}
           /\ \A k \in OldBlock : ~AllocBit(wine_ldt_copy, k)
    /\ (Shrink \/ SameCount \/ GrowInPlace) => last.ret # 0

\* a block of two entries could not be moved: it is gone and 0 was returned
C14_Witness ==
    /\ ReHome
    /\ last.ret = 0
    /\ OldCount = 2
    /\ \A k \in OldBlock : AllocBit(prev, k) /\ ~AllocBit(wine_ldt_copy, k)

\* entry i of the block the latest call returned
Window(i) == SELECTOR_TO_ENTRY(last.ret) + i

\* the flags of an entry without its allocated bit
DescriptorFlags(f) == ClearAllocated(f)

\* the limit that reaches the block's last byte from window i
LimitToEnd(i) == DwSub(DwSub(WrittenSize, <<0, 1>>), <<i, 0>>)

\* C15: after a SELECTOR_ReallocBlock that returns a selector, each of the
\* NewCount entries from that selector on is allocated, carries the flags
\* the block's first entry had before the call, has its base 0x10000 above
\* the previous entry's, and has a limit that reaches the last byte of the
\* new size.
C15_ReallocKeepsFlagsAndCovers ==
    (Realloc /\ last.ret # 0) =>
        \A i \in 0 .. (NewCount - 1) :
            /\ Window(i) \in Indices
            /\ AllocBit(wine_ldt_copy, Window(i))
            /\ DescriptorFlags(wine_ldt_copy.flags[Window(i)]) =
                   DescriptorFlags(prev.flags[OldIndex])
            /\ wine_ldt_copy.base[Window(i)] = DwAdd(last.base, <<i, 0>>)
            /\ ~DwGreater(LimitToEnd(i), wine_ldt_copy.limit[Window(i)])

\* a code block asked to span 0xFFFFFFFF bytes: the selector came back, and
\* the entry it names is free and carries no flags
C15_HugeSizeLeavesNoBlock ==
    /\ Realloc
    /\ last.size = <<65535, 65535>>
    /\ last.ret # 0
    /\ DescriptorFlags(prev.flags[OldIndex]) = WINE_LDT_FLAGS_CODE
    /\ Slot(wine_ldt_copy, Window(0)) = ZeroSlot

\* the latest call asked SELECTOR_ReallocBlock for more entries than the block had
Grew == Realloc /\ NewCount > OldCount

\* the caller's check of the block: one byte at offset 0 of sel is readable
Readable(sel) ==
    ~IsBadHugeReadPtr16(wine_ldt_copy, PTR_SEG_OFF_TO_SEGPTR(sel, 0), <<0, 1>>)

\* C16: growing a live block leaves a selector whose offset 0 is readable
\* for one byte; shrinking it back to the earlier size then leaves a block of
\* as many entries as before the growth, again readable at offset 0.
C16_GrowThenShrinkBack ==
    /\ Grew => Readable(last.ret)
    /\ last.op = "ReallocBack" =>
           /\ last.ret # 0
           /\ Readable(last.ret)
           /\ get_sel_count(wine_ldt_copy, last.ret) = NewCount
           /\ \A i \in 0 .. (NewCount - 1) : AllocBit(wine_ldt_copy, Window(i))
           /\ \A k \in Indices :
                  AllocBit(wine_ldt_copy, k) =
                      (AllocBit(prev, k)
                           /\ ~(k >= OldIndex + NewCount /\ k < OldIndex + OldCount))

\* a block was grown to 0xFFFFFFFF bytes: the selector that came back is not
\* readable at offset 0
C16_HugeGrowthUnreadable ==
    /\ Grew
    /\ last.size = <<65535, 65535>>
    /\ last.ret = last.sel
    /\ ~Readable(last.ret)

(***************************************************************************)
(* Aliases                                                                 *)
(***************************************************************************)
AliasCalls == {"AllocCStoDSAlias16", "AllocDStoCSAlias16"}

AliasMade == last.op \in AliasCalls /\ last.ret # 0

SourceEntry == SELECTOR_TO_ENTRY(last.sel)

AliasEntry == SELECTOR_TO_ENTRY(last.ret)

\* Code when the executable bit of the Type field is set, else Data
Kind(f) == IF (f \div 8) % 2 = 1 THEN "Code" ELSE "Data"

\* the alias is a fresh entry with the source's base and limit
AliasCopiesSource ==
    /\ AllocBit(prev, SourceEntry)
    /\ ~AllocBit(prev, AliasEntry)
    /\ AllocBit(wine_ldt_copy, AliasEntry)
    /\ wine_ldt_copy.base[AliasEntry] = prev.base[SourceEntry]
    /\ wine_ldt_copy.limit[AliasEntry] = prev.limit[SourceEntry]

\* C17 as stated: a successful alias call yields a fresh entry with the
\* source's base and limit and a kind that differs from the source's.
C17_AsStated ==
    AliasMade =>
        /\ AliasCopiesSource
        /\ Kind(wine_ldt_copy.flags[AliasEntry]) # Kind(prev.flags[SourceEntry])

\* C17 amended: a successful alias call yields a fresh entry with the
\* source's base and limit; AllocCStoDSAlias16 always gives it the Data type
\* and AllocDStoCSAlias16 the Code type, whatever the source's kind, so the
\* kinds differ exactly when the source is Code for the first call and Data
\* for the second.
C17_AliasKindSetByCall ==
    AliasMade =>
        /\ AliasCopiesSource
        /\ DescriptorFlags(wine_ldt_copy.flags[AliasEntry]) % 32 =
               (IF last.op = "AllocCStoDSAlias16" THEN WINE_LDT_FLAGS_DATA
                ELSE WINE_LDT_FLAGS_CODE)
        /\ (Kind(wine_ldt_copy.flags[AliasEntry]) # Kind(prev.flags[SourceEntry]))
               <=> (Kind(prev.flags[SourceEntry]) =
                        (IF last.op = "AllocCStoDSAlias16" THEN "Code" ELSE "Data"))

\* AllocCStoDSAlias16 of a data block of three entries gave a Data alias
C17_Witness ==
    /\ AliasMade
    /\ last.op = "AllocCStoDSAlias16"
    /\ Kind(prev.flags[SourceEntry]) = "Data"
    /\ Kind(wine_ldt_copy.flags[AliasEntry]) = "Data"
    /\ wine_ldt_copy.limit[AliasEntry] = <<2, 0>>

FreeingCalls == {"FreeSelector16", "FreeBlock", "UnMapLS"}

\* the aliases held that were made from the selector the latest call freed
AliasesOfFreed == {h \in live : h.of # 0 /\ h.of = last.sel}

\* C18: FreeSelector16 of an alias leaves allocated bit, base, limit and
\* flags of the entry it was made from as they were, and freeing a selector
\* leaves allocated bit, base, limit and flags of every alias made from it as
\* they were.
C18_AliasAndSourceFreedApart ==
    /\ (last.op = "FreeSelector16" /\ last.count # 0) =>
           /\ last.ret = 0
           /\ AllocBit(wine_ldt_copy, SELECTOR_TO_ENTRY(last.count))
           /\ Slot(wine_ldt_copy, SELECTOR_TO_ENTRY(last.count)) =
                  Slot(prev, SELECTOR_TO_ENTRY(last.count))
    /\ last.op \in FreeingCalls =>
           \A h \in AliasesOfFreed :
               /\ AllocBit(wine_ldt_copy, SELECTOR_TO_ENTRY(h.sel))
               /\ Slot(wine_ldt_copy, SELECTOR_TO_ENTRY(h.sel)) =
                      Slot(prev, SELECTOR_TO_ENTRY(h.sel))

\* a block of two entries was freed while a code alias of its first entry
\* was held: the alias still has the block's base and limit
C18_Witness ==
    /\ last.op = "FreeBlock"
    /\ last.count = 2
    /\ ~AllocBit(wine_ldt_copy, SELECTOR_TO_ENTRY(last.sel))
    /\ \E h \in AliasesOfFreed :
           /\ AllocBit(wine_ldt_copy, SELECTOR_TO_ENTRY(h.sel))
           /\ wine_ldt_copy.base[SELECTOR_TO_ENTRY(h.sel)] = prev.base[SELECTOR_TO_ENTRY(last.sel)]
           /\ wine_ldt_copy.limit[SELECTOR_TO_ENTRY(h.sel)] = <<1, 0>>

(***************************************************************************)
(* Pointer checks                                                          *)
(***************************************************************************)
PtrChecks ==
    {"IsBadCodePtr16", "IsBadStringPtr16", "IsBadHugeReadPtr16", "IsBadHugeWritePtr16"}

PtrChecked == last.op \in PtrChecks

Bad == last.ret = 1

\* C19: every pointer check reports a bad pointer when the selector is 0 or
\* its entry is not allocated, whatever the offset and the size; so a
\* selector found good earlier is found bad once its entry has been freed.
C19_NullOrFreeSelectorIsBad ==
    (PtrChecked
         /\ (last.sel = 0 \/ ~AllocBit(wine_ldt_copy, SELECTOR_TO_ENTRY(last.sel)))) => Bad

\* a selector that was found good is checked again after its block was
\* freed, with size 0, and is found bad
C19_Witness ==
    /\ PtrChecked
    /\ last.sel # 0
    /\ last.sel = checked
    /\ last.size = <<0, 0>>
    /\ ~AllocBit(wine_ldt_copy, SELECTOR_TO_ENTRY(last.sel))
    /\ Bad

ReadOrWriteChecked == last.op \in {"IsBadHugeReadPtr16", "IsBadHugeWritePtr16"}

CheckedEntry == SELECTOR_TO_ENTRY(last.sel)

CheckedType == DescriptorFlags(wine_ldt_copy.flags[CheckedEntry]) % 32

\* the entry's type allows what the check asks for: reading data or code,
\* writing data
Compatible ==
    IF last.op = "IsBadHugeWritePtr16" THEN CheckedType = WINE_LDT_FLAGS_DATA
    ELSE CheckedType \in {WINE_LDT_FLAGS_DATA, WINE_LDT_FLAGS_CODE}

\* offset + size - 1 for size > 0, as <<multiple of 0x10000, rest>>, not
\* cut to 32 bits
RangeEnd ==
    LET low == OFFSETOF(last.sptr) + LOWORD(last.size) + 65535
    IN  <<HIWORD(last.size) - 1 + (low \div 65536), low % 65536>>

\* C20: on an allocated entry of a compatible type and for size > 0,
\* IsBadHugeReadPtr16 and IsBadHugeWritePtr16 accept the pointer exactly when
\* offset + size - 1 <= limit.
C20_GoodExactlyWithinLimit ==
    (ReadOrWriteChecked
         /\ last.sel # 0
         /\ AllocBit(wine_ldt_copy, CheckedEntry)
         /\ Compatible
         /\ last.size # <<0, 0>>) =>
        (~Bad <=> ~DwGreater(RangeEnd, wine_ldt_copy.limit[CheckedEntry]))

\* 0xFFFFFFFF bytes at offset 15 of a block of 16 bytes were found good
C20_HugeRangeFoundGood ==
    /\ ReadOrWriteChecked
    /\ AllocBit(wine_ldt_copy, CheckedEntry)
    /\ wine_ldt_copy.limit[CheckedEntry] = <<0, 15>>
    /\ OFFSETOF(last.sptr) = 15
    /\ last.size = <<65535, 65535>>
    /\ ~Bad

(***************************************************************************)
(* The descriptor type in the pointer checks                               *)
(***************************************************************************)
WriteChecked == last.op = "IsBadHugeWritePtr16"

CheckedAllocated == last.sel # 0 /\ AllocBit(wine_ldt_copy, CheckedEntry)

\* the segment bit 0x10 is set and the code bit 0x08 is clear
DataKind(type) == (type \div 16) % 2 = 1 /\ (type \div 8) % 2 = 0

\* the segment bit 0x10 and the code bit 0x08 are both set
CodeKind(type) == (type \div 16) % 2 = 1 /\ (type \div 8) % 2 = 1

\* a data descriptor with the writable bit 0x02
WritableData(type) == DataKind(type) /\ (type \div 2) % 2 = 1

\* the checked range lies within the limit: size is 0, or offset + size - 1,
\* not cut to 32 bits, is at most the limit
WithinLimit ==
    \/ last.size = <<0, 0>>
    \/ ~DwGreater(RangeEnd, wine_ldt_copy.limit[CheckedEntry])

\* C21: on an allocated entry IsBadHugeWritePtr16 reports a bad pointer
\* whenever the descriptor is not writable data (read-only data, code), for
\* every offset and size; on writable data a range within the limit is good
\* whatever the expand-down and accessed bits are.
C21_WriteNeedsWritableData ==
    (WriteChecked /\ CheckedAllocated) =>
        /\ ~WritableData(CheckedType) => Bad
        /\ (WritableData(CheckedType) /\ WithinLimit) => ~Bad

\* a block of read-only data (type 0x11) was rejected at offset 0 for size 0
C21_Witness ==
    /\ WriteChecked
    /\ CheckedAllocated
    /\ CheckedType = 17
    /\ OFFSETOF(last.sptr) = 0
    /\ last.size = <<0, 0>>
    /\ Bad

CodeChecked == last.op = "IsBadCodePtr16"

OffsetWithinLimit ==
    ~DwGreater(<<0, OFFSETOF(last.sptr)>>, wine_ldt_copy.limit[CheckedEntry])

\* C22: on an allocated entry IsBadCodePtr16 reports a bad pointer for every
\* data descriptor and every system descriptor, and for a code descriptor
\* reports a good pointer exactly when the offset is at most the limit,
\* whatever the conforming, readable and accessed bits are.
C22_ExecuteNeedsCodeWithinLimit ==
    (CodeChecked /\ CheckedAllocated) =>
        (~Bad <=> (CodeKind(CheckedType) /\ OffsetWithinLimit))

\* a conforming code block that cannot be read and was never accessed (type
\* 0x1c) was found good at its last byte
C22_Witness ==
    /\ CodeChecked
    /\ CheckedAllocated
    /\ CheckedType = 28
    /\ <<0, OFFSETOF(last.sptr)>> = wine_ldt_copy.limit[CheckedEntry]
    /\ ~Bad

(***************************************************************************)
(* MapLS, UnMapLS and MapSL                                                *)
(***************************************************************************)
Mapped == last.op = "MapLS"

Unmapped == last.op = "UnMapLS"

\* the machine is as it was before the call
MachineUnchanged == wine_ldt_copy = prev /\ fs = 0 /\ gs = 0

\* C23: MapLS of a linear address whose high word is 0 returns the address
\* itself and allocates nothing, and UnMapLS of such a value, whenever and
\* however often it is called, leaves the table as it was.
C23_LowAddressPassesThrough ==
    /\ (Mapped /\ HIWORD(last.base) = 0) =>
           (last.sptr = last.base /\ MachineUnchanged)
    /\ (Unmapped /\ SELECTOROF(last.base) = 0) => MachineUnchanged

\* MapLS passed a low address through while the table had free entries and
\* callers held selectors
C23_Witness ==
    /\ Mapped
    /\ HIWORD(last.base) = 0
    /\ last.sptr = last.base
    /\ live # {}
    /\ \E k \in Indices : k >= FIRST_LDT_ENTRY_TO_ALLOC /\ ~AllocBit(wine_ldt_copy, k)

MappedHigh == Mapped /\ HIWORD(last.base) # 0

\* the segmented pointer returned names the linear address that was mapped
RoundTrips ==
    /\ SELECTOROF(last.sptr) # 0
    /\ MapSL(wine_ldt_copy, last.sptr) = last.base

\* before the call some entry that can be allocated was free
HadFreeEntry ==
    \E k \in Indices : k >= FIRST_LDT_ENTRY_TO_ALLOC /\ ~AllocBit(prev, k)

\* C24 as stated: in every table state MapLS of an address with a non-zero
\* high word returns a non-null selector, and MapSL of the result is the
\* address.
C24_AsStated == MappedHigh => RoundTrips

\* C24: MapLS of an address with a non-zero high word returns a non-null
\* selector whose MapSL is the address exactly when an entry was free; with
\* no free entry it returns the null pointer and leaves the table as it was.
C24_RoundTripWhileEntriesLast ==
    MappedHigh =>
        /\ HadFreeEntry => RoundTrips
        /\ ~HadFreeEntry => (last.sptr = <<0, 0>> /\ wine_ldt_copy = prev)

\* an address above 0xFFFF was mapped into a table holding other selectors
C24_Witness ==
    /\ MappedHigh
    /\ RoundTrips
    /\ \E k \in Indices : AllocBit(prev, k)

(***************************************************************************)
(* GetThreadSelectorEntry                                                  *)
(***************************************************************************)
Queried == last.op = "GetThreadSelectorEntry"

\* sel & 4 is clear: a GDT selector
Global == (last.sel \div 4) % 2 = 0

\* a selector without its two privilege bits
Masked(sel) == (sel \div 4) * 4

PlaysCodeRole == Masked(last.sel) = Masked(cs)

PlaysDataRole == Masked(last.sel) = Masked(ds) \/ Masked(last.sel) = Masked(ss)

\* base 0 and limit 0xfffff pages: the whole address space, present, open
\* to privilege level 3, 32-bit, and readable and writable or executable
FlatFullAccess(e) ==
    /\ e.base = <<0, 0>>
    /\ e.limit = <<15, 65535>>
    /\ e.granularity = 1
    /\ e.pres = 1
    /\ e.dpl = 3
    /\ e.big
    /\ (e.type \div 2) % 2 = 1

\* C25: for a GDT selector GetThreadSelectorEntry sends no request to the
\* server; when the selector, privilege bits ignored, is the thread's %cs it
\* succeeds with a flat full-access code descriptor, and when it is the
\* thread's %ds or %ss with a flat full-access data descriptor.
C25_GlobalSelectorByRole ==
    (Queried /\ Global) =>
        /\ requests = <<>>
        /\ PlaysCodeRole =>
               (last.ret /\ FlatFullAccess(ldtent) /\ CodeKind(ldtent.type))
        /\ PlaysDataRole =>
               (last.ret /\ FlatFullAccess(ldtent) /\ DataKind(ldtent.type))

\* the code selector of the thread was asked for with privilege bits other
\* than those in %cs, and a code descriptor came back
C25_Witness ==
    /\ Queried
    /\ Global
    /\ last.sel # cs
    /\ PlaysCodeRole
    /\ last.ret
    /\ CodeKind(ldtent.type)

Local == ~Global

ReplyFailed == last.reply.failed

ReplyAllocated == (last.reply.flags \div 128) % 2 = 1

\* base, limit, type and 32-bit bit of the caller's LDT_ENTRY are those of
\* the reply
FilledFromReply ==
    /\ ldtent.base = last.reply.base
    /\ ldtent.limit = last.reply.limit
    /\ ldtent.type = last.reply.flags % 32
    /\ ldtent.big = ((last.reply.flags \div 64) % 2 = 1)

\* the call failed and left the caller's LDT_ENTRY as it was
FailedUntouched == ~last.ret /\ ldtent = last.ldtent

\* C26: for an LDT selector GetThreadSelectorEntry sends exactly one request,
\* carrying the thread handle and the entry number, whatever comes back; when
\* the server call fails it fails and leaves the last error as it was; when
\* the entry comes back not allocated it fails with ERROR_MR_MID_NOT_FOUND;
\* the caller's LDT_ENTRY is filled from the reply when, and only when, the
\* entry comes back allocated.
C26_OneRequestNoRetry ==
    (Queried /\ Local) =>
        /\ requests = <<[handle |-> last.hthread, entry |-> last.sel \div 8]>>
        /\ ReplyFailed => (FailedUntouched /\ LastError = last.LastError)
        /\ (~ReplyFailed /\ ~ReplyAllocated) =>
               (FailedUntouched /\ LastError = ERROR_MR_MID_NOT_FOUND)
        /\ (~ReplyFailed /\ ReplyAllocated) =>
               (last.ret /\ FilledFromReply /\ LastError = last.LastError)

\* the server call failed for an LDT selector while the caller's LDT_ENTRY
\* held an entry from an earlier call: one request went out, the entry
\* stayed, and the last error is not ERROR_MR_MID_NOT_FOUND
C26_Witness ==
    /\ Queried
    /\ Local
    /\ ReplyFailed
    /\ Len(requests) = 1
    /\ ~last.ret
    /\ ldtent # StaleEntry
    /\ LastError # ERROR_MR_MID_NOT_FOUND

(***************************************************************************)
(* Blocks and the table                                                    *)
(***************************************************************************)
\* the entries of the block a caller holds
BlockRange(h) ==
    {k \in Indices : k >= SELECTOR_TO_ENTRY(h.sel) /\ k < SELECTOR_TO_ENTRY(h.sel) + h.n}

\* the blocks SELECTOR_ReallocBlock has just returned to its caller
ReturnedBlocks ==
    IF last.op \in {"ReallocBlock", "ReallocBack"} /\ last.ret # 0 THEN {last.ret} ELSE {}

\* every entry of every block held is allocated, blocks share no entry, and
\* every allocated entry from FIRST_LDT_ENTRY_TO_ALLOC up is in a block
BlocksPartitionAllocated ==
    /\ \A h \in Blocks : \A k \in BlockRange(h) : AllocBit(wine_ldt_copy, k)
    /\ \A g, h \in Blocks : g # h => BlockRange(g) \cap BlockRange(h) = {}
    /\ \A k \in Indices :
           (k >= FIRST_LDT_ENTRY_TO_ALLOC /\ AllocBit(wine_ldt_copy, k)) =>
               \E h \in Blocks : k \in BlockRange(h)

\* C27: after any sequence of SELECTOR_AllocBlock, SELECTOR_ReallocBlock and
\* SELECTOR_FreeBlock calls on the selectors of live blocks, the live blocks,
\* the one a reallocation has just returned included, take disjoint runs of
\* allocated entries, and no other entry from FIRST_LDT_ENTRY_TO_ALLOC up is
\* allocated.
C27_BlocksPartitionTheTable ==
    /\ BlocksPartitionAllocated
    /\ \A sel \in ReturnedBlocks : AllocBit(wine_ldt_copy, SELECTOR_TO_ENTRY(sel))

\* SELECTOR_ReallocBlock was asked for 0xFFFFFFFF bytes and returned the
\* selector of the block, whose first entry is no longer allocated
C27_LiveBlockNotAllocated ==
    /\ Realloc
    /\ last.size = <<65535, 65535>>
    /\ last.ret = last.sel
    /\ ~AllocBit(wine_ldt_copy, SELECTOR_TO_ENTRY(last.ret))

\* the flags of the block written: those handed to SELECTOR_AllocBlock, or
\* those the block's first entry had when SELECTOR_ReallocBlock was called
BlockFlags ==
    IF last.op = "AllocBlock" THEN last.flags
    ELSE DescriptorFlags(prev.flags[OldIndex])

\* the windows of the block written that the table has entries for
WindowsWritten ==
    {i \in 0 .. (LDT_SIZE - 1) : i < Windows(WrittenSize) /\ Window(i) \in Indices}

\* C28: after a SELECTOR_AllocBlock or SELECTOR_ReallocBlock that returns a
\* selector, window i of the block, for every i below ceil(size / 0x10000),
\* has base + i * 0x10000 as its base and carries the block's flags.
C28_WindowsCarryBaseAndFlags ==
    BlockWritten =>
        \A i \in WindowsWritten :
            /\ wine_ldt_copy.base[Window(i)] = DwAdd(last.base, <<i, 0>>)
            /\ DescriptorFlags(wine_ldt_copy.flags[Window(i)]) = BlockFlags

\* SELECTOR_ReallocBlock returned the selector of a data block for
\* 0xFFFFFFFF bytes at a non-zero base, and window 0 has base 0 and no flags
C28_HugeSizeWritesNoWindow ==
    /\ Realloc
    /\ last.size = <<65535, 65535>>
    /\ last.ret # 0
    /\ last.base # <<0, 0>>
    /\ BlockFlags = WINE_LDT_FLAGS_DATA
    /\ wine_ldt_copy.base[Window(0)] = <<0, 0>>
    /\ DescriptorFlags(wine_ldt_copy.flags[Window(0)]) = 0

\* SELECTOR_SetEntries was run with base 0 and size 1
ZeroBaseOneByte == last.base = <<0, 0>> /\ WrittenSize = <<0, 1>>

FirstLimit == wine_ldt_copy.limit[Window(0)]

\* the first entry of a block held is allocated with base 0 and limit 0
AllZeroFirstEntry(h) ==
    LET k == SELECTOR_TO_ENTRY(h.sel)
    IN  /\ AllocBit(wine_ldt_copy, k)
        /\ wine_ldt_copy.base[k] = <<0, 0>>
        /\ wine_ldt_copy.limit[k] = <<0, 0>>

\* C29: when SELECTOR_AllocBlock or SELECTOR_ReallocBlock runs
\* SELECTOR_SetEntries with base 0 and size 1 the first entry's limit is 1,
\* for every other base and size it is size - 1, and no block held has an
\* allocated first entry whose base and limit are both 0.
C29_LimitOneForZeroBaseOneByte ==
    /\ BlockWritten =>
           FirstLimit = (IF ZeroBaseOneByte THEN <<0, 1>>
                         ELSE DwSub(WrittenSize, <<0, 1>>))
    /\ \A h \in Blocks : ~AllZeroFirstEntry(h)

\* SELECTOR_ReallocBlock returned the selector of a block for 0xFFFFFFFF
\* bytes, and the limit of its first entry is 0, not 0xFFFFFFFE
C29_HugeSizeLimitNotSet ==
    /\ Realloc
    /\ last.size = <<65535, 65535>>
    /\ last.ret # 0
    /\ FirstLimit = <<0, 0>>
    /\ DwSub(WrittenSize, <<0, 1>>) = <<65535, 65534>>

\* the latest call took the branch of SELECTOR_ReallocBlock that adds selectors
GrowPath == Realloc /\ scan.grow

PastTableEnd == OldIndex + NewCount > LDT_SIZE

\* C30: in the branch of SELECTOR_ReallocBlock that adds selectors, every
\* index of wine_ldt_copy.flags read or marked is below LDT_SIZE; when the
\* block's index plus the new count is above LDT_SIZE no entry is read or
\* marked and the block is freed and allocated elsewhere, under another
\* selector or not at all.
C30_ScanStaysInsideTable ==
    GrowPath =>
        /\ \A k \in scan.reads \cup scan.marks : k >= 0 /\ k < LDT_SIZE
        /\ PastTableEnd =>
               (scan.reads = {} /\ scan.marks = {} /\ scan.moved
                    /\ last.ret # last.sel)

\* a block whose last entry is not the table's last was asked to grow past
\* the end of the table: nothing was read and the block was freed
C30_Witness ==
    /\ GrowPath
    /\ PastTableEnd
    /\ OldIndex + OldCount < LDT_SIZE
    /\ scan.reads = {}
    /\ scan.moved

(***************************************************************************)
(* The access bits of an alias                                             *)
(***************************************************************************)
\* the three low bits of the Type field: accessed (0x01), readable for code
\* or writable for data (0x02), conforming for code or expand-down for data
\* (0x04)
AccessBits(f) == f % 8

\* C31 as stated: every access bit of the source has the same value in the
\* alias.
C31_AsStated ==
    AliasMade =>
        AccessBits(wine_ldt_copy.flags[AliasEntry]) = AccessBits(prev.flags[SourceEntry])

\* C31 amended: the alias has the access bits of WINE_LDT_FLAGS_DATA and
\* WINE_LDT_FLAGS_CODE, accessed and readable or writable and neither
\* conforming nor expand-down, whatever those of the source are, so they are
\* the source's only when the source has exactly these; the 32-bit bit, the
\* base and the limit are the source's.
C31_AliasAccessBitsSetByCall ==
    AliasMade =>
        /\ AccessBits(wine_ldt_copy.flags[AliasEntry]) = 3
        /\ (AccessBits(wine_ldt_copy.flags[AliasEntry]) = AccessBits(prev.flags[SourceEntry]))
               <=> (AccessBits(prev.flags[SourceEntry]) = 3)
        /\ (wine_ldt_copy.flags[AliasEntry] \div 64) % 2 = (prev.flags[SourceEntry] \div 64) % 2
        /\ wine_ldt_copy.base[AliasEntry] = prev.base[SourceEntry]
        /\ wine_ldt_copy.limit[AliasEntry] = prev.limit[SourceEntry]

\* AllocDStoCSAlias16 of a read-only data block (type 0x11) gave a readable
\* code alias (type 0x1b)
C31_Witness ==
    /\ AliasMade
    /\ last.op = "AllocDStoCSAlias16"
    /\ DescriptorFlags(prev.flags[SourceEntry]) % 32 = 17
    /\ DescriptorFlags(wine_ldt_copy.flags[AliasEntry]) % 32 = 27

(***************************************************************************)
(* The window MapLS makes                                                  *)
(***************************************************************************)
MappedEntry == SELECTOR_TO_ENTRY(SELECTOROF(last.sptr))

\* the address of the 4096-byte page that holds a linear address
PageDown(ptr) == <<HIWORD(ptr), LOWORD(ptr) - (LOWORD(ptr) % 4096)>>

\* exactly one entry was allocated, the one returned, with the data flags
\* and limit 0xFFFF
OneDataWindow ==
    /\ SELECTOROF(last.sptr) # 0
    /\ NewlyAllocated = {MappedEntry}
    /\ AllocBits(wine_ldt_copy) = [k \in Indices |-> AllocBit(prev, k) \/ k = MappedEntry]
    /\ DescriptorFlags(wine_ldt_copy.flags[MappedEntry]) = WINE_LDT_FLAGS_DATA
    /\ wine_ldt_copy.limit[MappedEntry] = <<0, 65535>>

\* C32 as stated: MapLS of an address with a non-zero high word allocates
\* one data entry with limit 0xFFFF whose base is the address rounded down
\* to its page, and the offset returned is the address minus that base.
C32_AsStated ==
    MappedHigh =>
        /\ OneDataWindow
        /\ wine_ldt_copy.base[MappedEntry] = PageDown(last.base)
        /\ <<0, OFFSETOF(last.sptr)>> = DwSub(last.base, wine_ldt_copy.base[MappedEntry])

\* C32 amended: when an entry is free, MapLS of an address with a non-zero
\* high word allocates one data entry with limit 0xFFFF whose base is the
\* address itself, not rounded, and returns offset 0; when none is
\* free it allocates nothing and returns the null pointer.
C32_WindowStartsAtPointer ==
    MappedHigh =>
        IF HadFreeEntry
        THEN /\ OneDataWindow
             /\ wine_ldt_copy.base[MappedEntry] = last.base
             /\ OFFSETOF(last.sptr) = 0
        ELSE /\ last.sptr = <<0, 0>>
             /\ NewlyAllocated = {}

\* an address that is not at the start of its page was mapped: the window
\* starts at the address, not at the page
C32_Witness ==
    /\ MappedHigh
    /\ OneDataWindow
    /\ PageDown(last.base) # last.base
    /\ wine_ldt_copy.base[MappedEntry] = last.base
    /\ OFFSETOF(last.sptr) = 0

\* a call of the selector functions has run and not yet returned
CallRan == last.op # "none"

\* the entry the register named before the call was allocated then and is
\* free now
EntryFreed(reg) ==
    /\ AllocBit(prev, SELECTOR_TO_ENTRY(reg))
    /\ ~AllocBit(wine_ldt_copy, SELECTOR_TO_ENTRY(reg))

\* SELECTOR_ReallocBlock freed the block and allocated it again elsewhere
ReHomed == last.op = "ReallocBlock" /\ last.ret # 0 /\ last.ret # last.sel

\* the register was left alone, or set to 0 because the entry it named was
\* freed during the call
KeptOrZeroed(old, new) ==
    /\ EntryFreed(old) => new = 0
    /\ new # old =>
           /\ new = 0
           /\ AllocBit(prev, SELECTOR_TO_ENTRY(old))
           /\ EntryFreed(old) \/ ReHomed
           /\ last.op \in {"FreeSelector16", "FreeBlock", "UnMapLS", "ReallocBlock"}

\* C33 as stated: after any call, also one that frees the selector loaded
\* in %fs or %gs, both registers hold the values they held before it.
C33_AsStated ==
    CallRan => fs = prevregs.fs /\ gs = prevregs.gs

\* C33 amended: a call leaves %fs and %gs as they were, except that a call
\* which frees the allocated entry a register names sets that register to 0;
\* no other call and no other value is written.
C33_RegistersKeptOrZeroed ==
    CallRan => KeptOrZeroed(prevregs.fs, fs) /\ KeptOrZeroed(prevregs.gs, gs)

\* FreeSelector16 freed the selector loaded in %fs while %gs named another
\* entry in use: %fs is now 0 and %gs is as it was
C33_Witness ==
    /\ last.op = "FreeSelector16"
    /\ last.ret = 0
    /\ prevregs.fs = last.sel
    /\ fs = 0
    /\ gs = prevregs.gs
    /\ gs # 0
    /\ AllocBit(wine_ldt_copy, SELECTOR_TO_ENTRY(gs))

\* the entries of the run caller c's scan chose
RunOf(c) == {k \in Indices : k >= found[c] /\ k < found[c] + want[c]}

BothIdle == \A c \in Callers : pc[c] = "idle"

\* without mutual exclusion, both callers ended their scans before either
\* marked
Raced == ~serialized /\ raced

\* C34 as stated: without mutual exclusion, two callers whose scans both end
\* before either marks receive the same selector and every entry of their
\* runs is handed to both; inside a mutual-exclusion scope no such pair of
\* scans happens and no entry has two owners.
C34_AsStated ==
    /\ Raced =>
           /\ found[1] = found[2]
           /\ BothIdle =>
                  /\ got[1] = got[2]
                  /\ \A k \in RunOf(1) \cup RunOf(2) : owners[k] = Callers
    /\ serialized =>
           /\ ~raced
           /\ \A k \in Indices : Cardinality(owners[k]) <= 1

\* C34 amended: without mutual exclusion, two callers whose scans both end
\* before either marks each choose the run a sole caller would have been
\* given for its count: with equal counts both receive the same selector
\* and every entry of the run is handed to both; with different counts the
\* runs start at the same entry or share no entry.  Inside a
\* mutual-exclusion scope no such pair of scans happens, no entry has two
\* owners and every entry handed out is allocated.
C34_SameCountSameRun ==
    /\ Raced /\ want[1] = want[2] =>
           /\ found[1] = found[2]
           /\ BothIdle =>
                  /\ got[1] = got[2]
                  /\ got[1] = ENTRY_TO_SELECTOR(found[1])
                  /\ \A k \in RunOf(1) : owners[k] = Callers
    /\ Raced /\ want[1] # want[2] =>
           \/ found[1] = found[2]
           \/ RunOf(1) \cap RunOf(2) = {}
    /\ Raced /\ BothIdle =>
           \A k \in RunOf(1) \cap RunOf(2) : owners[k] = Callers
    /\ serialized =>
           /\ ~raced
           /\ \A k \in Indices :
                  /\ Cardinality(owners[k]) <= 1
                  /\ owners[k] # {} => AllocBit(wine_ldt_copy, k)

\* without mutual exclusion both callers asked for two entries, both scanned
\* before either marked, and both were returned the same selector: its two
\* entries have two owners
C34_Witness ==
    /\ Raced
    /\ BothIdle
    /\ want[1] = 2
    /\ want[2] = 2
    /\ got[1] = got[2]
    /\ got[1] # 0
    /\ \A k \in RunOf(1) : owners[k] = Callers

MapHelped == last.op = "SMapLS_IP_EBP"

UnmapHelped == last.op = "SUnMapLS_IP_EBP"

\* the entry of the selector the latest map helper left in the slot
StoredEntry == SELECTOR_TO_ENTRY(SELECTOROF(frame.stored))

\* the call freed the entry of sel and touched no other entry
FreedOnly(sel) ==
    /\ ~AllocBit(wine_ldt_copy, SELECTOR_TO_ENTRY(sel))
    /\ \A k \in Indices \ {SELECTOR_TO_ENTRY(sel)} : Slot(wine_ldt_copy, k) = Slot(prev, k)

\* C35: the map helper leaves 0 in the frame slot for a value below 0x10000
\* and the pointer MapLS returned otherwise; the unmap helper frees the
\* slot's selector only when the slot is not 0 and leaves 0 in the slot; so
\* after one call of the map helper the unmap helper, however often it is
\* called, calls UnMapLS at most once, and from its second call on leaves
\* the table as it was, entries allocated since the first call included.
C35_UnmapHelperFreesOnce ==
    /\ MapHelped =>
           IF HIWORD(last.base) = 0
           THEN /\ frame.slot = <<0, 0>>
                /\ frame.eax = last.base
                /\ wine_ldt_copy = prev
           ELSE /\ frame.slot = last.sptr
                /\ frame.eax = last.sptr
                /\ OFFSETOF(frame.slot) = 0
                /\ IF SELECTOROF(frame.slot) # 0
                   THEN /\ NewlyAllocated = {SELECTOR_TO_ENTRY(SELECTOROF(frame.slot))}
                        /\ MapSL(wine_ldt_copy, frame.slot) = last.base
                   ELSE NewlyAllocated = {}
    /\ UnmapHelped =>
           /\ frame.slot = <<0, 0>>
           /\ IF last.sptr = <<0, 0>>
              THEN wine_ldt_copy = prev
              ELSE FreedOnly(SELECTOROF(last.sptr))
    /\ frame.frees <= 1
    /\ UnmapHelped /\ frame.unmaps >= 2 =>
           /\ last.sptr = <<0, 0>>
           /\ wine_ldt_copy = prev

\* the map helper mapped an address, the unmap helper freed its selector, the
\* entry was allocated again, and a later call of the unmap helper left it
\* allocated
C35_Witness ==
    /\ UnmapHelped
    /\ frame.unmaps >= 2
    /\ frame.frees = 1
    /\ SELECTOROF(frame.stored) # 0
    /\ AllocBit(wine_ldt_copy, StoredEntry)
    /\ wine_ldt_copy = prev

\* the check was of a range of size > 0 on an allocated entry whose type
\* allows the access
CheckedUsableRange ==
    /\ ReadOrWriteChecked
    /\ CheckedAllocated
    /\ Compatible
    /\ last.size # <<0, 0>>

\* C36: IsBadHugeReadPtr16 and IsBadHugeWritePtr16 report a bad pointer for
\* every range of size > 0 on an allocated entry of a compatible type whose
\* offset + size - 1, not cut to 32 bits, is above the limit, sizes near
\* 2^32 included.
C36_PastLimitIsBad ==
    (CheckedUsableRange /\ DwGreater(RangeEnd, wine_ldt_copy.limit[CheckedEntry])) => Bad

\* IsBadHugeWritePtr16 found 0xFFFFFFFF bytes good that start at offset 16
\* of a data block of 16 bytes, one byte past its limit
C36_WrappedEndAccepted ==
    /\ WriteChecked
    /\ CheckedUsableRange
    /\ wine_ldt_copy.limit[CheckedEntry] = <<0, 15>>
    /\ OFFSETOF(last.sptr) = 16
    /\ last.size = <<65535, 65535>>
    /\ DwGreater(RangeEnd, wine_ldt_copy.limit[CheckedEntry])
    /\ ~Bad

AliasBlockFreed == last.op = "FreeBlockOfAlias"

\* an entry that was allocated before the call and is free after it
Cleared(k) == AllocBit(prev, k) /\ ~AllocBit(wine_ldt_copy, k)

\* C37: SELECTOR_FreeBlock of a selector returned by AllocCStoDSAlias16 or
\* AllocDStoCSAlias16 frees the alias's entry and no other, also when the
\* alias was made from the first selector of a block of several entries: no
\* entry of a block or alias still held has its allocated bit cleared.
C37_OnlyAliasEntryFreed ==
    AliasBlockFreed =>
        /\ \A k \in Indices : Cleared(k) => k = SELECTOR_TO_ENTRY(last.sel)
        /\ \A h \in live : \A k \in BlockRange(h) : ~Cleared(k)

\* the alias copied a limit of 0x10000 or more from the first selector of a
\* block of two entries; SELECTOR_FreeBlock of the alias also freed the entry
\* after it, the first entry of a block still held
C37_NeighbourBlockFreed ==
    /\ AliasBlockFreed
    /\ HIWORD(prev.limit[SELECTOR_TO_ENTRY(last.sel)]) >= 1
    /\ \E h \in live :
           /\ h.kind = "block"
           /\ SELECTOR_TO_ENTRY(h.sel) = SELECTOR_TO_ENTRY(last.sel) + 1
           /\ Cleared(SELECTOR_TO_ENTRY(h.sel))

====
